---- MODULE Spec2Model ----
(***************************************************************************)
(* Model of the command evaluator (app/command_handler.py), the datastore  *)
(* (app/datastore.py) and the RESP encoders (app/encoders.py) of the       *)
(* codecrafters-redis-python server.                                       *)
(*                                                                         *)
(* Python strings are TLA+ strings; wherever the code looks inside a       *)
(* string (len, split, int) the model goes through Chars, the string's     *)
(* characters, and computes on them as the code does.  Wall-clock time is  *)
(* an integer number of milliseconds.                                      *)
(***************************************************************************)
EXTENDS Integers, Sequences, FiniteSets, TLC

\* ------------------------------------------------------------------------
\* Bounds of the model
\* ------------------------------------------------------------------------

\* the clock runs from 1 to MaxTime (milliseconds)
MaxTime == 3

\* number of commands the clients send in one behaviour of SpecKV
MaxCmdsKV == 5

\* number of commands the clients send in one behaviour of SpecStream
MaxCmdsStream == 5

\* number of commands the clients send in one behaviour of SpecTx
MaxCmdsTx == 5

\* ------------------------------------------------------------------------
\* Python strings
\* ------------------------------------------------------------------------

\* the largest number whose decimal form the model reads back
MaxNum == 400

IsDigit(ch) == ch \in {"0", "1", "2", "3", "4", "5", "6", "7", "8", "9"}

DigitVal(ch) ==
  CASE ch = "0" -> 0 [] ch = "1" -> 1 [] ch = "2" -> 2 [] ch = "3" -> 3
    [] ch = "4" -> 4 [] ch = "5" -> 5 [] ch = "6" -> 6 [] ch = "7" -> 7
    [] ch = "8" -> 8 [] ch = "9" -> 9

DigitChar(d) ==
  CASE d = 0 -> "0" [] d = 1 -> "1" [] d = 2 -> "2" [] d = 3 -> "3"
    [] d = 4 -> "4" [] d = 5 -> "5" [] d = 6 -> "6" [] d = 7 -> "7"
    [] d = 8 -> "8" [] d = 9 -> "9"

RECURSIVE DigitsVal(_)
DigitsVal(cs) ==
  IF cs = << >> THEN 0
  ELSE 10 * DigitsVal(SubSeq(cs, 1, Len(cs) - 1)) + DigitVal(cs[Len(cs)])

AllDigits(cs) == Len(cs) > 0 /\ \A i \in 1..Len(cs) : IsDigit(cs[i])

RECURSIVE NatChars(_)
NatChars(n) ==
  IF n < 10 THEN <<DigitChar(n)>>
  ELSE Append(NatChars(n \div 10), DigitChar(n % 10))

\* the characters of every string the model handles: the words below and
\* the decimal numbers from 10 to MaxNum
Chars(s) ==
  CASE s = ""     -> << >>
    [] s = "a"    -> <<"a">>
    [] s = "b"    -> <<"b">>
    [] s = "0"    -> <<"0">>
    [] s = "1"    -> <<"1">>
    [] s = "2"    -> <<"2">>
    [] s = "3"    -> <<"3">>
    [] s = "4"    -> <<"4">>
    [] s = "5"    -> <<"5">>
    [] s = "6"    -> <<"6">>
    [] s = "7"    -> <<"7">>
    [] s = "8"    -> <<"8">>
    [] s = "9"    -> <<"9">>
    [] s = "-1"   -> <<"-", "1">>
    [] s = "0-0"  -> <<"0", "-", "0">>
    [] s = "0-1"  -> <<"0", "-", "1">>
    [] s = "1-0"  -> <<"1", "-", "0">>
    [] s = "1-1"  -> <<"1", "-", "1">>
    [] s = "01-1" -> <<"0", "1", "-", "1">>
    [] s = "k"    -> <<"k">>
    [] s = "s"    -> <<"s">>
    [] s = "f"    -> <<"f">>
    [] s = "é"    -> <<"é">>
    [] s = "SET" -> <<"S", "E", "T">>
    [] s = "GET" -> <<"G", "E", "T">>
    [] s = "PING" -> <<"P", "I", "N", "G">>
    [] s = "INCR" -> <<"I", "N", "C", "R">>
    [] s = "MULTI" -> <<"M", "U", "L", "T", "I">>
    [] s = "EXEC" -> <<"E", "X", "E", "C">>
    [] s = "WAIT" -> <<"W", "A", "I", "T">>
    [] s = "REPLCONF" -> <<"R", "E", "P", "L", "C", "O", "N", "F">>
    [] s = "listening-port" -> <<"l", "i", "s", "t", "e", "n", "i", "n", "g", "-", "p", "o", "r", "t">>
    [] s = "capa" -> <<"c", "a", "p", "a">>
    [] s = "psync2" -> <<"p", "s", "y", "n", "c", "2">>
    [] s = "PSYNC" -> <<"P", "S", "Y", "N", "C">>
    [] s = "?" -> <<"?">>
    [] s = "GETACK" -> <<"G", "E", "T", "A", "C", "K">>
    [] s = "*" -> <<"*">>
    [] s = "ACK" -> <<"A", "C", "K">>
    [] s = "ECHO" -> <<"E", "C", "H", "O">>
    [] s = "XADD" -> <<"X", "A", "D", "D">>
    [] s = "SET OK" -> <<"S", "E", "T", " ", "O", "K">>
    [] s = "REPLCONF ACK" -> <<"R", "E", "P", "L", "C", "O", "N", "F", " ", "A", "C", "K">>
    [] s = "OK" -> <<"O", "K">>
    [] s = "PONG" -> <<"P", "O", "N", "G">>
    [] s = "QUEUED" -> <<"Q", "U", "E", "U", "E", "D">>
    [] s = "value is not an integer or out of range" -> <<"v", "a", "l", "u", "e", " ", "i", "s", " ", "n", "o", "t", " ", "a", "n", " ", "i", "n", "t", "e", "g", "e", "r", " ", "o", "r", " ", "o", "u", "t", " ", "o", "f", " ", "r", "a", "n", "g", "e">>
    [] s = "EXEC without MULTI" -> <<"E", "X", "E", "C", " ", "w", "i", "t", "h", "o", "u", "t", " ", "M", "U", "L", "T", "I">>
    [] s = "DISCARD without MULTI" -> <<"D", "I", "S", "C", "A", "R", "D", " ", "w", "i", "t", "h", "o", "u", "t", " ", "M", "U", "L", "T", "I">>
    [] OTHER -> NatChars(CHOOSE n \in 10..MaxNum : ToString(n) = s)

Strings ==
  {"", "a", "b", "0", "1", "2", "3", "4", "5", "6", "7", "8", "9", "-1",
   "0-0", "0-1", "1-0", "1-1", "01-1", "k", "s", "f", "é",
   "SET", "GET", "PING", "INCR", "MULTI", "EXEC", "WAIT", "REPLCONF",
   "listening-port", "capa", "psync2", "PSYNC", "?", "GETACK", "*",
   "ACK", "ECHO", "XADD", "SET OK", "REPLCONF ACK", "OK", "PONG", "QUEUED",
   "value is not an integer or out of range", "EXEC without MULTI", "DISCARD without MULTI"}

\* the string with the given characters: the decimal number they spell, or
\* a word of Strings
StrOfChars(cs) ==
  IF AllDigits(cs) /\ (Len(cs) = 1 \/ cs[1] # "0")
    THEN ToString(DigitsVal(cs))
    ELSE CHOOSE s \in Strings : Chars(s) = cs

\* len(value)
StrLen(s) == Len(Chars(s))

\* " ".join(rest), as characters
RECURSIVE SpaceJoined(_)
SpaceJoined(rest) ==
  IF rest = << >> THEN << >>
  ELSE IF Len(rest) = 1 THEN Chars(rest[1])
  ELSE Chars(rest[1]) \o <<" ">> \o SpaceJoined(Tail(rest))

\* int(s) of a str: [ok |-> FALSE] stands for ValueError
ParseIntChars(cs) ==
  IF Len(cs) > 1 /\ cs[1] = "-" /\ AllDigits(Tail(cs))
    THEN [ok |-> TRUE, n |-> 0 - DigitsVal(Tail(cs))]
  ELSE IF AllDigits(cs)
    THEN [ok |-> TRUE, n |-> DigitsVal(cs)]
  ELSE [ok |-> FALSE, n |-> 0]

ParseInt(s) == ParseIntChars(Chars(s))

\* str(n) of an int
IntToStr(n) ==
  IF n < 0 THEN StrOfChars(<<"-">> \o NatChars(0 - n))
  ELSE StrOfChars(NatChars(n))

\* s.split(sep): the pieces of cs between the occurrences of sep
RECURSIVE SplitChars(_, _)
SplitChars(cs, sep) ==
  IF \A i \in 1..Len(cs) : cs[i] # sep THEN <<cs>>
  ELSE LET i == CHOOSE j \in 1..Len(cs) :
                  cs[j] = sep /\ \A h \in 1..(j - 1) : cs[h] # sep
       IN  <<SubSeq(cs, 1, i - 1)>> \o SplitChars(SubSeq(cs, i + 1, Len(cs)), sep)

\* ------------------------------------------------------------------------
\* Python values held by the datastore and handled by the evaluator
\* ------------------------------------------------------------------------

None == [t |-> "none", s |-> "", n |-> 0]
PyStr(s) == [t |-> "str", s |-> s, n |-> 0]
PyInt(n) == [t |-> "int", s |-> "", n |-> n]

\* truth value of "if value": None, "" and 0 are false
Truthy(v) == (v.t = "str" /\ v.s # "") \/ (v.t = "int" /\ v.n # 0)

\* str(value)
ToStr(v) == IF v.t = "int" THEN IntToStr(v.n) ELSE v.s

\* int(value): of an int the int itself, of a str its parse
ToInt(v) == IF v.t = "int" THEN [ok |-> TRUE, n |-> v.n] ELSE ParseInt(v.s)

\* ------------------------------------------------------------------------
\* encoders.py: replies, kept as the encoder calls that produce them
\* ------------------------------------------------------------------------

encode_simple_string(value) == [t |-> "simple", s |-> value, n |-> 0, a |-> << >>]

encode_integer(value) == [t |-> "integer", s |-> "", n |-> value, a |-> << >>]

\* $-1 for None, else $<len> and the value
encode_bulk_string(value) ==
  IF value.t = "none" THEN [t |-> "nil", s |-> "", n |-> 0 - 1, a |-> << >>]
  ELSE [t |-> "bulk", s |-> value.s, n |-> StrLen(value.s), a |-> << >>]

encode_array(values) == [t |-> "array", s |-> "", n |-> Len(values), a |-> values]

encode_error(message) == [t |-> "error", s |-> message, n |-> 0, a |-> << >>]

\* what the caller of handle_command gets when the handler raises
Raised == [t |-> "raised", s |-> "", n |-> 0, a |-> << >>]

\* ------------------------------------------------------------------------
\* Bytes on a connection
\*
\* An encoded str is the sequence of its lines, each a sequence of characters
\* and each followed by CRLF.  Data that was read is the sequence of chunks
\* data.split(b"\r\n") gives: the lines, then what follows the last CRLF
\* (the empty chunk when the data ends with CRLF).
\* ------------------------------------------------------------------------

\* master_replid: 40 random characters, here a fixed choice of them
master_replid == <<"r", "e", "p", "l", "i", "d">>

\* the reply f"FULLRESYNC {master_replid} {master_repl_offset}"
FullResync(offset) == [t |-> "fullresync", s |-> "", n |-> offset, a |-> << >>]

\* the concatenation of encoded strs
RECURSIVE Join(_)
Join(parts) == IF parts = << >> THEN << >> ELSE Head(parts) \o Join(Tail(parts))

\* the str an encoder returns, as its lines
RECURSIVE Encode(_)
Encode(reply) ==
  CASE reply.t = "simple"  -> << <<"+">> \o Chars(reply.s) >>
    [] reply.t = "integer" -> << <<":">> \o Chars(IntToStr(reply.n)) >>
    [] reply.t = "nil"     -> << <<"$", "-", "1">> >>
    [] reply.t = "bulk"    -> << <<"$">> \o NatChars(reply.n), Chars(reply.s) >>
    [] reply.t = "error"   -> << <<"-", "E", "R", "R", " ">> \o Chars(reply.s) >>
    [] reply.t = "array"   ->
         << <<"*">> \o NatChars(reply.n) >>
           \o Join([i \in 1..Len(reply.a) |-> Encode(reply.a[i])])
    [] reply.t = "fullresync" ->
         << <<"+", "F", "U", "L", "L", "R", "E", "S", "Y", "N", "C", " ">>
              \o master_replid \o <<" ">> \o NatChars(reply.n) >>

\* len(s) of an encoded str: its characters, CRLF after each line
EncodedLen(lines) ==
  LET RECURSIVE Sum(_)
      Sum(ls) == IF ls = << >> THEN 0 ELSE Len(Head(ls)) + 2 + Sum(Tail(ls))
  IN  Sum(lines)

\* the number of bytes of c.encode(): a character outside ASCII takes more
\* than one byte in UTF-8
Utf8Len(c) == IF c = "é" THEN 2 ELSE 1

\* len(b) of the bytes of a line
RECURSIVE ByteLen(_)
ByteLen(cs) == IF cs = << >> THEN 0 ELSE Utf8Len(Head(cs)) + ByteLen(Tail(cs))

\* len(s.encode()) of an encoded str
RECURSIVE EncodedByteLen(_)
EncodedByteLen(lines) ==
  IF lines = << >> THEN 0
  ELSE ByteLen(Head(lines)) + 2 + EncodedByteLen(Tail(lines))

\* len(data) of data that was read
DataLen(chunks) == EncodedByteLen(chunks) - 2

\* "word" in s, for a word without CR and LF
Contains(lines, word) ==
  \E i \in 1..Len(lines) :
    \E j \in 1..(Len(lines[i]) - Len(word) + 1) :
      SubSeq(lines[i], j, j + Len(word) - 1) = word

\* encode_array([encode_bulk_string(piece) for piece in query])
EncodeQuery(query) ==
  encode_array([i \in 1..Len(query) |-> encode_bulk_string(PyStr(query[i]))])

\* the frame a peer sends for a command: an array of bulk strings, each
\* with the number of its bytes
Frame(query) ==
  << <<"*">> \o NatChars(Len(query)) >>
    \o Join([i \in 1..Len(query) |->
               << <<"$">> \o NatChars(ByteLen(Chars(query[i]))),
                  Chars(query[i]) >>])

\* the bytes of the frames of the given queries, one after the other
FramesOf(queries) == Join([i \in 1..Len(queries) |-> Frame(queries[i])])

\* ------------------------------------------------------------------------
\* parsers.py: RedisProtocolParser
\* ------------------------------------------------------------------------

\* what parse returns: None, a str or a list
PNone == [t |-> "none", s |-> "", a |-> << >>]
PStr(s) == [t |-> "str", s |-> s, a |-> << >>]
PList(a) == [t |-> "list", s |-> "", a |-> a]

\* the outcome of a call: the value and the deque after it, or the exception
Parsed(value, data) == [raised |-> FALSE, value |-> value, data |-> data]
ParseError(data) == [raised |-> TRUE, value |-> PNone, data |-> data]

\* _parse_bulk_string(line), data being the deque after the line
ParseBulkString(line, data) ==
  LET string_length == ParseIntChars(Tail(line))
  IN  IF ~string_length.ok THEN ParseError(data)
      ELSE IF string_length.n = 0 - 1 THEN Parsed(PNone, data)
      ELSE IF data = << >> THEN ParseError(data)
      ELSE IF ByteLen(Head(data)) # string_length.n THEN ParseError(Tail(data))
      ELSE Parsed(PStr(StrOfChars(Head(data))), Tail(data))

RECURSIVE parse(_)
RECURSIVE ParseElements(_, _)

\* [self.parse() for _ in range(number_of_elements)]
ParseElements(data, number_of_elements) ==
  IF number_of_elements <= 0 THEN Parsed(PList(<< >>), data)
  ELSE LET first == parse(data)
           rest  == ParseElements(first.data, number_of_elements - 1)
       IN  IF first.raised THEN ParseError(first.data)
           ELSE IF rest.raised THEN ParseError(rest.data)
           ELSE Parsed(PList(<<first.value>> \o rest.value.a), rest.data)

\* _parse_array(line), data being the deque after the line
ParseArray(line, data) ==
  LET number_of_elements == ParseIntChars(Tail(line))
  IN  IF ~number_of_elements.ok THEN ParseError(data)
      ELSE IF number_of_elements.n = 0 - 1 THEN Parsed(PNone, data)
      ELSE ParseElements(data, number_of_elements.n)

\* parse(): only the lines that start with * and with $ are supported
parse(data) ==
  IF data = << >> THEN ParseError(data)
  ELSE LET line == Head(data)
       IN  IF line # << >> /\ line[1] = "*" THEN ParseArray(line, Tail(data))
           ELSE IF line # << >> /\ line[1] = "$"
             THEN ParseBulkString(line, Tail(data))
           ELSE ParseError(Tail(data))

\* the truth value of "query := parser.parse()": None, "" and [] are false
ParsedTruthy(value) ==
  (value.t = "str" /\ value.s # "") \/ (value.t = "list" /\ value.a # << >>)

\* whether the value is a list of str, which the cases of handle_command
\* match on; anything else raises there
IsQuery(value) ==
  value.t = "list" /\ value.a # << >>
    /\ \A i \in 1..Len(value.a) : value.a[i].t = "str"

\* the list of str as the query handle_command gets
QueryOf(value) == [i \in 1..Len(value.a) |-> value.a[i].s]

\* ------------------------------------------------------------------------
\* utils.py, datastore.py: the string store
\* ------------------------------------------------------------------------

NoExpiry == [some |-> FALSE, at |-> 0]

\* Container(value, expiry)
Container(value, expiry) == [value |-> value, expiry |-> expiry]

\* calculate_expiry: time() + int(expires_in) / 1e3, here in milliseconds
calculate_expiry(expires_in, t) ==
  LET p == ParseInt(expires_in)
  IN  [ok |-> p.ok, expiry |-> [some |-> TRUE, at |-> t + p.n]]

DictRemove(d, key) == [x \in (DOMAIN d) \ {key} |-> d[x]]

DictPut(d, key, item) ==
  [x \in (DOMAIN d) \cup {key} |-> IF x = key THEN item ELSE d[x]]

\* "item.expiry and time() > item.expiry"
Expired(item, t) == item.expiry.some /\ item.expiry.at # 0 /\ t > item.expiry.at

\* Datastore.__getitem__: the value and the store after the lazy deletion
GetItem(d, key, t) ==
  IF key \notin DOMAIN d THEN [kv |-> d, value |-> None]
  ELSE IF Expired(d[key], t) THEN [kv |-> DictRemove(d, key), value |-> None]
  ELSE [kv |-> d, value |-> d[key].value]

\* Datastore.__setitem__ of a bare value wraps it in a Container without expiry
SetItem(d, key, value) == DictPut(d, key, Container(value, NoExpiry))

\* Datastore.__setitem__ of a Container
SetContainer(d, key, item) == DictPut(d, key, item)

\* ------------------------------------------------------------------------
\* datastore.py: the streams
\* ------------------------------------------------------------------------

Keys == {"k", "s"}

\* Datastore.peek: the key of the most recent entry of the stream, or None
peek(strs, key) ==
  IF Len(strs[key]) = 0 THEN None ELSE PyStr(strs[key][Len(strs[key])].id)

\* stream[entry_id] = attributes on an OrderedDict: a key already present
\* keeps its place, a new key goes last
OrderedPut(stream, entry_id, attributes) ==
  IF \E i \in 1..Len(stream) : stream[i].id = entry_id
    THEN [i \in 1..Len(stream) |->
            IF stream[i].id = entry_id
              THEN [id |-> entry_id, attrs |-> attributes] ELSE stream[i]]
    ELSE Append(stream, [id |-> entry_id, attrs |-> attributes])

\* entry_id.split("-") and int() of the two pieces; not ok stands for ValueError
ParseEntryId(entry_id) ==
  LET parts == SplitChars(Chars(entry_id), "-")
  IN  IF Len(parts) # 2 THEN [ok |-> FALSE, time |-> 0, sequence |-> 0]
      ELSE LET tm == ParseIntChars(parts[1])
               sq == ParseIntChars(parts[2])
           IN  [ok |-> tm.ok /\ sq.ok, time |-> tm.n, sequence |-> sq.n]

MsgZeroId == "The ID specified in XADD must be greater than 0-0"
MsgTopItem ==
  "The ID specified in XADD is equal or smaller than the target stream top item"

\* mutant of IsZeroId: the check against 0-0 is missing
IsZeroIdNever(time, sequence) == FALSE

\* "if time == 0 and sequence == 0"
IsZeroId(time, sequence) == time = 0 /\ sequence = 0

\* mutant of NotAboveTop: the comparison of the times is missing
NotAboveTopSameTime(time, sequence, top_item_time, top_item_sequence) ==
  time = top_item_time /\ sequence <= top_item_sequence

\* the two comparisons against the top item
NotAboveTop(time, sequence, top_item_time, top_item_sequence) ==
  \/ time < top_item_time
  \/ time = top_item_time /\ sequence <= top_item_sequence

\* Datastore.add_to_stream: raised is a ValueError, error a StreamError's
\* message; the method ends in a bare return, so it returns None
add_to_stream(strs, key, entry_id, attributes) ==
  LET id  == ParseEntryId(entry_id)
      top == peek(strs, key)
      tp  == IF Truthy(top) THEN ParseEntryId(top.s)
             ELSE [ok |-> TRUE, time |-> 0, sequence |-> 0]
      same == [streams |-> strs, raised |-> FALSE, error |-> "", ret |-> None]
  IN  IF ~id.ok THEN [same EXCEPT !.raised = TRUE]
      ELSE IF IsZeroId(id.time, id.sequence) THEN [same EXCEPT !.error = MsgZeroId]
      ELSE IF Truthy(top) /\ NotAboveTop(id.time, id.sequence, tp.time, tp.sequence)
        THEN [same EXCEPT !.error = MsgTopItem]
      ELSE [same EXCEPT
              !.streams = [strs EXCEPT ![key] = OrderedPut(@, entry_id, attributes)]]

\* dict(zip(rest[::2], rest[1::2])): a later value of a field replaces an earlier
Attributes(rest) ==
  LET n == Len(rest) \div 2
  IN  [f \in {rest[2 * i - 1] : i \in 1..n} |->
         rest[2 * (CHOOSE i \in 1..n :
                     /\ rest[2 * i - 1] = f
                     /\ \A j \in (i + 1)..n : rest[2 * j - 1] # f)]]

\* ------------------------------------------------------------------------
\* command_handler.py: the per-connection queues
\* ------------------------------------------------------------------------

Conns == {"c1", "c2"}

\* the connections of the server: two clients and a replica
Peers == Conns \cup {"r1"}

\* mutant of WRITE_COMMANDS: INCR is missing
WriteCommandsNoIncr == {"SET", "XADD"}

WRITE_COMMANDS == {"SET", "INCR", "XADD"}

\* the str "MULTI" that MULTI appends to the queue
MultiMarker == [marker |-> TRUE, query |-> << >>, stale |-> FALSE]

\* a query (a list of str) held by the queue; stale is history: it is set
\* on the items a DISCARD was asked to drop
Queued(query) == [marker |-> FALSE, query |-> query, stale |-> FALSE]

\* mutant of QueueKey: one queue for all the connections
QueueKeyShared(writer) == "c1"

\* self.command_queues[writer]: the queue is keyed by the connection's writer
QueueKey(writer) == writer

\* "MULTI" in command_queue
HasMulti(command_queue) ==
  \E i \in 1..Len(command_queue) : command_queue[i].marker

\* _is_transaction_open
is_transaction_open(queues, writer) == HasMulti(queues[QueueKey(writer)])

\* query[0].upper()
Upper(name) ==
  CASE name = "set" -> "SET" [] name = "get" -> "GET" [] name = "incr" -> "INCR"
    [] name = "xadd" -> "XADD" [] name = "multi" -> "MULTI"
    [] name = "exec" -> "EXEC" [] name = "discard" -> "DISCARD"
    [] OTHER -> name

\* ------------------------------------------------------------------------
\* command_handler.py: handle_command, every command but EXEC
\* ------------------------------------------------------------------------

\* The result of one call: the datastore and the queues after it, the reply
\* (Raised when the handler raises) and the branch that was taken.
Result(kvS, strs, queues, reply, did) ==
  [kv |-> kvS, streams |-> strs, queues |-> queues, reply |-> reply, did |-> did]

\* command_queue.append(query); return +QUEUED
Enqueue(kvS, strs, queues, writer, query) ==
  Result(kvS, strs,
         [queues EXCEPT ![QueueKey(writer)] = Append(@, Queued(query))],
         encode_simple_string("QUEUED"), "queued")

\* case ["ECHO", *rest]
HandleEcho(kvS, strs, queues, query) ==
  Result(kvS, strs, queues,
         encode_bulk_string(PyStr(StrOfChars(SpaceJoined(Tail(query))))), "echo")

\* case ["SET", key, value, "px", expires_in]
HandleSetPx(kvS, strs, queues, query, t) ==
  LET e == calculate_expiry(query[5], t)
  IN  IF ~e.ok THEN Result(kvS, strs, queues, Raised, "raise")
      ELSE Result(SetContainer(kvS, query[2], Container(PyStr(query[3]), e.expiry)),
                  strs, queues, encode_simple_string("OK"), "setpx")

\* case ["SET", key, value]
HandleSet(kvS, strs, queues, query) ==
  Result(SetItem(kvS, query[2], PyStr(query[3])), strs, queues,
         encode_simple_string("OK"), "set")

\* case ["INCR", key]
HandleIncr(kvS, strs, queues, query, t) ==
  LET key   == query[2]
      g1    == GetItem(kvS, key, t)
      g2    == GetItem(g1.kv, key, t)
      value == IF Truthy(g1.value) THEN g2.value ELSE PyInt(0)
      p     == ToInt(value)
      kv3   == SetItem(g2.kv, key, PyInt(p.n + 1))
  IN  IF ~p.ok
        THEN Result(g2.kv, strs, queues,
                    encode_error("value is not an integer or out of range"),
                    "incr_error")
        ELSE Result(GetItem(kv3, key, t).kv, strs, queues,
                    encode_integer(GetItem(kv3, key, t).value.n), "incr")

\* case ["XADD", key, entry_id, *rest]
HandleXadd(kvS, strs, queues, query) ==
  LET rest == SubSeq(query, 4, Len(query))
      r    == add_to_stream(strs, query[2], query[3], Attributes(rest))
  IN  IF Len(rest) % 2 # 0 THEN Result(kvS, strs, queues, Raised, "raise")
      ELSE IF r.raised THEN Result(kvS, strs, queues, Raised, "raise")
      ELSE IF r.error # ""
        THEN Result(kvS, strs, queues, encode_error(r.error), "xadd_error")
      ELSE Result(kvS, r.streams, queues, encode_bulk_string(r.ret), "xadd")

\* case ["GET", key]
HandleGet(kvS, strs, queues, writer, query, t) ==
  LET g == GetItem(kvS, query[2], t)
  IN  IF is_transaction_open(queues, writer) /\ ~Truthy(g.value)
        THEN Enqueue(g.kv, strs, queues, writer, query)
        ELSE Result(g.kv, strs, queues,
                    encode_bulk_string(IF Truthy(g.value)
                                         THEN PyStr(ToStr(g.value)) ELSE None),
                    "get")

\* case ["TYPE", key]
HandleType(kvS, strs, queues, query, t) ==
  LET g == GetItem(kvS, query[2], t)
  IN  Result(g.kv, strs, queues,
             encode_simple_string(
               IF Truthy(g.value) THEN "string"
               ELSE IF Truthy(peek(strs, query[2])) THEN "stream"
               ELSE "none"),
             "type")

\* case ["MULTI"]
HandleMulti(kvS, strs, queues, writer) ==
  Result(kvS, strs,
         [queues EXCEPT ![QueueKey(writer)] = Append(@, MultiMarker)],
         encode_simple_string("OK"), "multi")

\* mutant of Clear: only the MULTI markers are dropped
ClearMarkers(command_queue) ==
  SelectSeq(command_queue, LAMBDA item : ~item.marker)

\* command_queue.clear()
Clear(command_queue) == << >>

\* history: the items of the queue, marked as discarded
Discarded(command_queue) ==
  [i \in 1..Len(command_queue) |-> [command_queue[i] EXCEPT !.stale = TRUE]]

\* case ["DISCARD"]
HandleDiscard(kvS, strs, queues, writer) ==
  IF ~HasMulti(queues[QueueKey(writer)])
    THEN Result(kvS, strs, queues, encode_error("DISCARD without MULTI"),
                "discard_error")
    ELSE Result(kvS, strs,
                [queues EXCEPT ![QueueKey(writer)] = Clear(Discarded(@))],
                encode_simple_string("OK"), "discard")

\* EntryId.parse(entry_id): the pair (ms, seq) of an id
EntryIdParse(entry_id) ==
  <<ParseEntryId(entry_id).time, ParseEntryId(entry_id).sequence>>

\* the order of the entry ids: lexicographic on (ms, seq)
EntryIdLess(a, b) == a[1] < b[1] \/ (a[1] = b[1] /\ a[2] < b[2])

\* Datastore.query_from_stream(key, start=entry_id, inclusive=...): the
\* entries of the stream from start on, oldest first
query_from_stream(strs, key, start, inclusive) ==
  SelectSeq(strs[key],
            LAMBDA entry :
              \/ EntryIdLess(EntryIdParse(start), EntryIdParse(entry.id))
              \/ inclusive /\ EntryIdParse(start) = EntryIdParse(entry.id))

\* the fields of an entry and their values, one after the other; the dict
\* keeps the order the fields were given in
RECURSIVE AttrItems(_)
AttrItems(attributes) ==
  IF DOMAIN attributes = {} THEN << >>
  ELSE LET f == CHOOSE x \in DOMAIN attributes : TRUE
       IN  <<encode_bulk_string(PyStr(f)), encode_bulk_string(PyStr(attributes[f]))>>
             \o AttrItems([x \in (DOMAIN attributes) \ {f} |-> attributes[x]])

\* encode_array([encode_bulk_string(entry.entry_id), encode_array([...])])
EncodeEntry(entry) ==
  encode_array(<<encode_bulk_string(PyStr(entry.id)),
                 encode_array(AttrItems(entry.attrs))>>)

\* what _handle_xread appends to response for a stream that has entries
XreadItem(stream_key, stream) ==
  encode_array(<<encode_bulk_string(PyStr(stream_key)),
                 encode_array([i \in 1..Len(stream) |-> EncodeEntry(stream[i])])>>)

\* rest[:middle] and rest[middle:]
StreamKeysOf(rest) == SubSeq(rest, 1, Len(rest) \div 2)
EntryIdsOf(rest) == SubSeq(rest, Len(rest) \div 2 + 1, Len(rest))

\* the for loop of _handle_xread without blocking, from the pair i on:
\* the first stream that has no entry ends the loop with the nil reply
RECURSIVE XreadLoop(_, _, _, _)
XreadLoop(strs, rest, i, response) ==
  IF i > Len(StreamKeysOf(rest)) THEN encode_array(response)
  ELSE IF ~ParseEntryId(EntryIdsOf(rest)[i]).ok THEN Raised
  ELSE IF Len(query_from_stream(strs, StreamKeysOf(rest)[i], EntryIdsOf(rest)[i],
                                FALSE)) = 0
    THEN encode_bulk_string(None)
  ELSE XreadLoop(strs, rest, i + 1,
         Append(response,
                XreadItem(StreamKeysOf(rest)[i],
                          query_from_stream(strs, StreamKeysOf(rest)[i],
                                            EntryIdsOf(rest)[i], FALSE))))

\* the reply of a call and the branch it names
Replied(kvS, strs, queues, reply, did) ==
  Result(kvS, strs, queues, reply, IF reply = Raised THEN "raise" ELSE did)

\* case ["XREAD", "streams", *arguments]: _handle_xread(*arguments)
HandleXread(kvS, strs, queues, query) ==
  IF (Len(query) - 2) % 2 # 0 THEN Result(kvS, strs, queues, Raised, "raise")
  ELSE Replied(kvS, strs, queues,
               XreadLoop(strs, SubSeq(query, 3, Len(query)), 1, << >>), "xread")

\* list(self.datastore.keys()): every key the dict holds. The dict gives
\* them in the order they were inserted in, which the model does not keep
RECURSIVE KeysOf(_)
KeysOf(d) ==
  IF DOMAIN d = {} THEN << >>
  ELSE LET key == CHOOSE x \in DOMAIN d : TRUE
       IN  <<key>> \o KeysOf(DictRemove(d, key))

\* case ["KEYS", _pattern]
HandleKeys(kvS, strs, queues) ==
  Result(kvS, strs, queues,
         encode_array([i \in 1..Len(KeysOf(kvS)) |->
                         encode_bulk_string(PyStr(KeysOf(kvS)[i]))]),
         "keys")

\* handle_command(query, writer=writer) called at time t, for every query
\* but EXEC, whose loop is the actions RecvExec, ExecStep and ExecEnd, and
\* XREAD, whose cases are the actions XreadNow, XreadBlock and XreadPoll
handle_command(kvS, strs, queues, writer, query0, t) ==
  LET query == [query0 EXCEPT ![1] = Upper(@)]
      name  == query[1]
  IN  IF is_transaction_open(queues, writer) /\ name \in WRITE_COMMANDS
        THEN Enqueue(kvS, strs, queues, writer, query)
      ELSE IF query = <<"PING">>
        THEN Result(kvS, strs, queues, encode_simple_string("PONG"), "ping")
      ELSE IF name = "ECHO"
        THEN HandleEcho(kvS, strs, queues, query)
      ELSE IF name = "SET" /\ Len(query) = 5 /\ query[4] = "px"
        THEN HandleSetPx(kvS, strs, queues, query, t)
      ELSE IF name = "SET" /\ Len(query) = 3
        THEN HandleSet(kvS, strs, queues, query)
      ELSE IF name = "INCR" /\ Len(query) = 2
        THEN HandleIncr(kvS, strs, queues, query, t)
      ELSE IF name = "XADD" /\ Len(query) >= 3
        THEN HandleXadd(kvS, strs, queues, query)
      ELSE IF name = "GET" /\ Len(query) = 2
        THEN HandleGet(kvS, strs, queues, writer, query, t)
      ELSE IF name = "KEYS" /\ Len(query) = 2
        THEN HandleKeys(kvS, strs, queues)
      ELSE IF name = "TYPE" /\ Len(query) = 2
        THEN HandleType(kvS, strs, queues, query, t)
      ELSE IF query = <<"MULTI">>
        THEN HandleMulti(kvS, strs, queues, writer)
      ELSE IF query = <<"DISCARD">>
        THEN HandleDiscard(kvS, strs, queues, writer)
      ELSE Result(kvS, strs, queues, Raised, "raise")

\* ------------------------------------------------------------------------
\* The commands the clients send
\* ------------------------------------------------------------------------

Values == {"", "a", "1"}

PxValues == {"0", "1"}

EntryIds == {"0-0", "0-1", "1-0", "1-1", "01-1"}

\* a SET of unsupported arity: no case of handle_command matches it
BadQuery == <<"SET", "k">>

\* SpecKV: one client, the string commands
KVQueries ==
  {<<"SET", "k", v>> : v \in Values}
    \cup {<<"SET", "k", v, "px", ms>> : v \in {"", "a"}, ms \in PxValues}
    \cup {<<"GET", "k">>, <<"INCR", "k">>}

\* SpecStream: one client, XADD to one stream
StreamQueries ==
  {<<"XADD", key, id, "f", "a">> : key \in {"s"}, id \in EntryIds}
    \cup {<<"MULTI">>}

\* SpecTx: two clients, transactions over writes and reads
TxQueries ==
  {<<"SET", "k", "1">>, <<"SET", "k", "a">>, <<"INCR", "k">>, <<"GET", "k">>,
   <<"XADD", "s", "1-1", "f", "a">>, <<"MULTI">>, <<"DISCARD">>, BadQuery}

\* ------------------------------------------------------------------------
\* State
\* ------------------------------------------------------------------------

VARIABLES
  now,             \* time(), in milliseconds
  kv,              \* Datastore (the dict): key -> Container
  streams,         \* Datastore._streams: key -> the entries, oldest first
  command_queues,  \* CommandHandler.command_queues: writer -> deque
  pc,              \* per connection: "idle", "exec" inside the loop of EXEC,
                   \* "closed" once a handler has raised
  response,        \* per connection: the list EXEC collects its results in
  running,         \* the connection whose task holds the event loop, or NoTask
  ncmds,           \* number of commands received so far
  last,            \* history: the latest step of a connection
  lastDid,         \* history: per connection, how its previous command ended
  lastWrite,       \* history: per key, the latest executed write of the string
  execSnap,        \* history: per connection, the queue when its EXEC began
  execRan,         \* history: per connection, the calls its EXEC has made
  inTx,            \* history: per connection, MULTI received and no EXEC or
                   \* DISCARD since
  replicas,        \* ReplicationManager.replicas, in insertion order
  master_repl_offset,  \* ServerInfo.master_repl_offset
  task,            \* per connection: where _process_connection stands, and
                   \* its locals
  wire,            \* history: per connection, what was written to its writer
  committed,       \* history: the writes the datastore took, in order
  nreads,          \* number of reads so far
  hs,              \* replica: where connect_to_master stands
  master_out,      \* replica, history: what was written to the master
  strm,            \* replica: where _handle_replication_stream stands, and
                   \* its locals
  inbox,           \* replica: the data the master has sent and the stream
                   \* has not read yet
  sent,            \* replica, history: the commands the master has sent on
                   \* the stream, in order
  processed        \* replica, history: the frames the stream has handled

\* the state of the evaluator and of the datastore
evalVars ==
  <<now, kv, streams, command_queues, pc, response, running, ncmds, last,
    lastDid, lastWrite, execSnap, execRan, inTx>>

\* the datastore and the queues
storeVars == <<kv, streams, command_queues>>

\* the state of the connections as the actions Recv to ExecEnd keep it
stepVars ==
  <<pc, response, ncmds, last, lastDid, lastWrite, execSnap, execRan, inTx>>

\* the state of the connection server and of the master side of replication
serverVars == <<replicas, master_repl_offset, task, wire, committed, nreads>>

\* the state of the replica side of replication
replicaVars == <<hs, master_out, strm, inbox, sent, processed>>

vars ==
  <<now, kv, streams, command_queues, pc, response, running, ncmds, last,
    lastDid, lastWrite, execSnap, execRan, inTx, replicas, master_repl_offset,
    task, wire, committed, nreads, hs, master_out, strm, inbox, sent,
    processed>>

NoTask == "none"

NoWrite == [kind |-> "none", value |-> "", at |-> 0, ms |-> 0]

\* _process_connection before its first read
NewTask ==
  [pc |-> "read", deque |-> << >>, data |-> << >>, frames |-> << >>,
   query |-> << >>, reply |-> Raised, i |-> 0, n0 |-> 0, m |-> 0, w0 |-> 0,
   started |-> 0, num |-> 0, timeout |-> 0, moff |-> 0, caught |-> {},
   part |-> FALSE, stream |-> << >>]

\* the connection server and a master's ReplicationManager after __init__
InitServer ==
  /\ replicas = << >>
  /\ master_repl_offset = 0
  /\ task = [p \in Peers |-> NewTask]
  /\ wire = [p \in Peers |-> << >>]
  /\ committed = << >>
  /\ nreads = 0

\* no master connection: the server is a master
NoHandshake == [pc |-> "none", step |-> 0, got |-> << >>]
NoStream ==
  [pc |-> "none", deque |-> << >>, offset |-> 0, nframes |-> 0, eof |-> FALSE]

InitNoReplica ==
  /\ hs = NoHandshake
  /\ master_out = << >>
  /\ strm = NoStream
  /\ inbox = << >>
  /\ sent = << >>
  /\ processed = << >>

\* CommandHandler and Datastore after __init__
InitEvaluator ==
  /\ now = 1
  /\ kv = << >>
  /\ streams = [key \in Keys |-> << >>]
  /\ command_queues = [c \in Conns |-> << >>]
  /\ pc = [c \in Conns |-> "idle"]
  /\ response = [c \in Conns |-> << >>]
  /\ running = NoTask
  /\ ncmds = 0
  /\ last = [seq |-> 0, conn |-> NoTask, query |-> << >>, reply |-> Raised,
             did |-> "init", via |-> "init", at |-> 0, prev |-> "init",
             dropped |-> 0]
  /\ lastDid = [c \in Conns |-> "init"]
  /\ lastWrite = [key \in Keys |-> NoWrite]
  /\ execSnap = [c \in Conns |-> << >>]
  /\ execRan = [c \in Conns |-> << >>]
  /\ inTx = [c \in Conns |-> FALSE]

\* a master that has just started
Init == InitEvaluator /\ InitServer /\ InitNoReplica

\* the step a connection has just taken: via is "client" for a command as
\* it is received, "exec" for a call EXEC makes, "return" for the end of EXEC;
\* dropped is the number of items the step took out of the queue
Step(c, query, reply, did, via, queues) ==
  [seq |-> 1 - last.seq, conn |-> c, query |-> query, reply |-> reply,
   did |-> did, via |-> via, at |-> now, prev |-> lastDid[c],
   dropped |-> IF Len(queues[QueueKey(c)]) < Len(command_queues[QueueKey(c)])
                 THEN Len(command_queues[QueueKey(c)]) - Len(queues[QueueKey(c)])
                 ELSE 0]

\* a handler that raises ends the loop of its caller, which closes the
\* connection (server.py and replication.py: except, then writer.close())
AfterCall(did) == IF did = "raise" THEN "closed" ELSE "idle"

\* the latest write of the strings after a call that took branch did
Written(query, did) ==
  IF did = "set"
    THEN [lastWrite EXCEPT ![query[2]] =
            [kind |-> "set", value |-> query[3], at |-> now, ms |-> 0]]
  ELSE IF did = "setpx"
    THEN [lastWrite EXCEPT ![query[2]] =
            [kind |-> "setpx", value |-> query[3], at |-> now,
             ms |-> ParseInt(query[5]).n]]
  ELSE IF did = "incr"
    THEN [lastWrite EXCEPT ![query[2]] =
            [kind |-> "incr", value |-> "", at |-> now, ms |-> 0]]
  ELSE lastWrite

\* the task of connection c may take a step: asyncio runs one task at a time
\* and switches tasks only where the running one suspends
CanRun(c) == running = NoTask \/ running = c

\* mutant of Suspends: every handler gives up the event loop
SuspendsAlways(query) == TRUE

\* whether handling the query suspends its task (asyncio.sleep in
\* _wait_for_stream and _handle_wait); no other handler awaits I/O
Suspends(query) == query[1] \in {"XREAD", "WAIT"}

\* ------------------------------------------------------------------------
\* Actions
\* ------------------------------------------------------------------------

\* time passes
Tick ==
  /\ now < MaxTime
  /\ now' = now + 1
  /\ UNCHANGED <<kv, streams, command_queues, pc, response, running, ncmds,
                 last, lastDid, lastWrite, execSnap, execRan, inTx>>

\* what a call that returned r leaves behind
RecvDone(c, query, r) ==
  /\ kv' = r.kv
  /\ streams' = r.streams
  /\ command_queues' = r.queues
  /\ last' = Step(c, query, r.reply, r.did, "client", r.queues)
  /\ lastDid' = [lastDid EXCEPT ![c] = r.did]
  /\ lastWrite' = Written(query, r.did)
  /\ pc' = [pc EXCEPT ![c] = AfterCall(r.did)]

\* handle_command(query, writer=c) for a query other than EXEC
Recv(c, query) ==
  /\ pc[c] = "idle"
  /\ CanRun(c)
  /\ RecvDone(c, query, handle_command(kv, streams, command_queues, c, query, now))
  /\ ncmds' = ncmds + 1
  /\ execSnap' = [execSnap EXCEPT ![c] = << >>]
  /\ execRan' = [execRan EXCEPT ![c] = << >>]
  /\ inTx' = [inTx EXCEPT ![c] =
                IF query = <<"MULTI">> THEN TRUE
                ELSE IF query = <<"DISCARD">> THEN FALSE
                ELSE @]
  /\ UNCHANGED <<now, response, running>>

\* mutant of ExecAllowed: the check is missing
ExecAllowedAlways(command_queue) == TRUE

\* the check EXEC makes before it drains the queue
ExecAllowed(command_queue) == HasMulti(command_queue)

\* case ["EXEC"], up to the loop: the error, or response = []
RecvExec(c) ==
  /\ pc[c] = "idle"
  /\ CanRun(c)
  /\ ncmds' = ncmds + 1
  /\ IF ~ExecAllowed(command_queues[QueueKey(c)])
       THEN /\ last' = Step(c, <<"EXEC">>, encode_error("EXEC without MULTI"),
                            "exec_error", "client", command_queues)
            /\ lastDid' = [lastDid EXCEPT ![c] = "exec_error"]
            /\ execSnap' = [execSnap EXCEPT ![c] = << >>]
            /\ UNCHANGED <<pc, response, running>>
       ELSE /\ pc' = [pc EXCEPT ![c] = "exec"]
            /\ response' = [response EXCEPT ![c] = << >>]
            /\ running' = c
            /\ last' = Step(c, <<"EXEC">>, Raised, "exec_begin", "client",
                            command_queues)
            /\ execSnap' = [execSnap EXCEPT ![c] = command_queues[QueueKey(c)]]
            /\ UNCHANGED lastDid
  /\ execRan' = [execRan EXCEPT ![c] = << >>]
  /\ inTx' = [inTx EXCEPT ![c] = FALSE]
  /\ UNCHANGED <<now, kv, streams, command_queues, lastWrite>>

\* mutant of Collect: the result is put in front
CollectInFront(results, result) == <<result>> \o results

\* response.append(result)
Collect(results, result) == Append(results, result)

\* the call the loop of EXEC makes for the command popped from the queue
ExecItemCall(kvS, strs, queues, writer, t) ==
  handle_command(kvS, strs, [queues EXCEPT ![QueueKey(writer)] = Tail(@)],
                 writer, Head(queues[QueueKey(writer)]).query, t)

\* one turn of "while query := command_queue.popleft()" when the call of
\* the popped query returned r: its result is collected; a handler that
\* raises ends EXEC with the exception
ExecStepRan(c, item, r) ==
  /\ kv' = r.kv
  /\ streams' = r.streams
  /\ command_queues' = r.queues
  /\ lastWrite' = Written(item.query, r.did)
  /\ execRan' = [execRan EXCEPT ![c] =
       Append(@, [query |-> item.query, reply |-> r.reply,
                  did |-> r.did, stale |-> item.stale])]
  /\ IF r.did = "raise"
       THEN /\ pc' = [pc EXCEPT ![c] = AfterCall(r.did)]
            /\ running' = NoTask
            /\ last' = Step(c, <<"EXEC">>, Raised, "raise", "return", r.queues)
            /\ lastDid' = [lastDid EXCEPT ![c] = "raise"]
            /\ UNCHANGED response
       ELSE /\ response' = [response EXCEPT ![c] = Collect(@, r.reply)]
            /\ running' = IF Suspends(item.query) THEN NoTask ELSE c
            /\ last' = Step(c, item.query, r.reply, r.did, "exec", r.queues)
            /\ UNCHANGED <<pc, lastDid>>

\* the MULTI marker popped from the queue is skipped
ExecStepSkip(c, popped) ==
  /\ command_queues' = popped
  /\ last' = Step(c, <<"MULTI">>, Raised, "exec_skip", "exec", popped)
  /\ running' = c
  /\ UNCHANGED <<kv, streams, pc, response, lastDid, lastWrite, execRan>>

\* one turn of the loop of EXEC: popleft, then the marker is skipped or the
\* command is run
ExecStep(c) ==
  /\ pc[c] = "exec"
  /\ CanRun(c)
  /\ command_queues[QueueKey(c)] # << >>
  /\ IF Head(command_queues[QueueKey(c)]).marker
       THEN ExecStepSkip(c, [command_queues EXCEPT ![QueueKey(c)] = Tail(@)])
       ELSE ExecStepRan(c, Head(command_queues[QueueKey(c)]),
                        ExecItemCall(kv, streams, command_queues, c, now))
  /\ UNCHANGED <<now, ncmds, execSnap, inTx>>

\* popleft on the empty queue raises IndexError: the loop is over and EXEC
\* returns the array of the results
ExecEnd(c) ==
  /\ pc[c] = "exec"
  /\ CanRun(c)
  /\ command_queues[QueueKey(c)] = << >>
  /\ pc' = [pc EXCEPT ![c] = "idle"]
  /\ running' = NoTask
  /\ last' = Step(c, <<"EXEC">>, encode_array(response[c]), "exec", "return",
                  command_queues)
  /\ lastDid' = [lastDid EXCEPT ![c] = "exec"]
  /\ UNCHANGED <<now, kv, streams, command_queues, response, ncmds, lastWrite,
                 execSnap, execRan, inTx>>

\* ------------------------------------------------------------------------
\* command_handler.py: the replication commands of handle_command, EXEC as
\* one call, and WAIT
\* ------------------------------------------------------------------------

\* ReplicaConfig(port, connection, capabilities, offset), under its address
ReplicaConfig(addr, port, connection) ==
  [addr |-> addr, port |-> port, connection |-> connection,
   capabilities |-> {}, offset |-> 0]

HasReplica(reps, addr) == \E i \in 1..Len(reps) : reps[i].addr = addr

\* _handle_replica_connected: self.replicas[addr] = ReplicaConfig(...); a new
\* key goes last, a known key keeps its place
replica_connected(reps, addr, port, connection) ==
  IF HasReplica(reps, addr)
    THEN [i \in 1..Len(reps) |->
            IF reps[i].addr = addr THEN ReplicaConfig(addr, port, connection)
            ELSE reps[i]]
    ELSE Append(reps, ReplicaConfig(addr, port, connection))

\* _handle_replica_capabilities, for a known address
replica_capabilities(reps, addr, capabilities) ==
  [i \in 1..Len(reps) |->
     IF reps[i].addr = addr
       THEN [reps[i] EXCEPT !.capabilities = @ \cup capabilities]
       ELSE reps[i]]

\* the result of a call that may also change the replicas
ResultR(r, reps) ==
  [kv |-> r.kv, streams |-> r.streams, queues |-> r.queues, reply |-> r.reply,
   did |-> r.did, replicas |-> reps, ran |-> << >>]

\* handle_command(query, writer=writer, offset=offset): the cases REPLCONF
\* and PSYNC, and handle_command above for the other queries
handle_command_repl(kvS, strs, queues, reps, writer, query0, t, offset, repl_offset) ==
  LET query == [query0 EXCEPT ![1] = Upper(@)]
      same  == Result(kvS, strs, queues, Raised, "raise")
  IN  IF Len(query) = 3 /\ query[1] = "REPLCONF" /\ query[2] = "listening-port"
        THEN ResultR([same EXCEPT !.reply = encode_simple_string("OK"),
                                  !.did = "replica_connected"],
                     replica_connected(reps, writer, query[3], writer))
      ELSE IF Len(query) >= 2 /\ query[1] = "REPLCONF" /\ query[2] = "capa"
        THEN IF HasReplica(reps, writer)
               THEN ResultR([same EXCEPT !.reply = encode_simple_string("OK"),
                                         !.did = "replica_capabilities"],
                            replica_capabilities(reps, writer,
                              {query[i] : i \in 3..Len(query)}))
               ELSE ResultR(same, reps)
      ELSE IF query = <<"REPLCONF", "GETACK", "*">>
        THEN ResultR([same EXCEPT
                        !.reply = encode_array(<<
                           encode_bulk_string(PyStr("REPLCONF")),
                           encode_bulk_string(PyStr("ACK")),
                           encode_bulk_string(PyStr(IntToStr(offset)))>>),
                        !.did = "getack"], reps)
      ELSE IF query = <<"PSYNC", "?", "-1">>
        THEN ResultR([same EXCEPT !.reply = FullResync(repl_offset),
                                  !.did = "psync"], reps)
      ELSE ResultR(handle_command(kvS, strs, queues, writer, query0, t), reps)

\* the branches of handle_command that change the datastore
WriteDids == {"set", "setpx", "incr", "xadd"}

\* case ["EXEC"] as one call: no queued command suspends, so the loop runs
\* to its end without another task in between; ran is history, the calls
\* the loop made
RECURSIVE ExecLoop(_, _, _, _, _, _, _)

\* the turn of the loop after the call of a queued command returned r: an
\* exception leaves the loop, else the response is collected
ExecAfter(r, query, writer, t, results, ran) ==
  IF r.did = "raise"
    THEN [kv |-> r.kv, streams |-> r.streams, queues |-> r.queues,
          reply |-> Raised, did |-> "raise", ran |-> ran]
    ELSE ExecLoop(r.kv, r.streams, r.queues, writer, t,
                  Collect(results, r.reply),
                  Append(ran, [query |-> query, did |-> r.did]))

ExecLoop(kvS, strs, queues, writer, t, results, ran) ==
  IF queues[QueueKey(writer)] = << >>
    THEN [kv |-> kvS, streams |-> strs, queues |-> queues,
          reply |-> encode_array(results), did |-> "exec", ran |-> ran]
  ELSE IF Head(queues[QueueKey(writer)]).marker
    THEN ExecLoop(kvS, strs, [queues EXCEPT ![QueueKey(writer)] = Tail(@)],
                  writer, t, results, ran)
  ELSE ExecAfter(ExecItemCall(kvS, strs, queues, writer, t),
                 Head(queues[QueueKey(writer)]).query, writer, t, results, ran)

ExecCall(kvS, strs, queues, reps, writer, t) ==
  IF ~ExecAllowed(queues[QueueKey(writer)])
    THEN ResultR(Result(kvS, strs, queues, encode_error("EXEC without MULTI"),
                        "exec_error"), reps)
    ELSE LET r == ExecLoop(kvS, strs, queues, writer, t, << >>, << >>)
         IN  [ResultR(r, reps) EXCEPT !.ran = r.ran]

\* one turn of the for loop of _handle_wait: the ports of the replicas whose
\* offset has reached master_offset
CaughtUp(reps, master_offset) ==
  {reps[i].port : i \in {j \in 1..Len(reps) : reps[j].offset >= master_offset}}

\* the two tests that end the loop of _handle_wait
WaitIsOver(caught_up_replicas, num_replicas, timeout, started, t) ==
  Cardinality(caught_up_replicas) >= num_replicas \/ t - started >= timeout

\* one client sends SET, SET px, GET and INCR while time passes
NextKV ==
  /\ \/ Tick
     \/ \E query \in KVQueries : ncmds < MaxCmdsKV /\ Recv("c1", query)
  /\ UNCHANGED <<serverVars, replicaVars>>

SpecKV == Init /\ [][NextKV]_vars

\* one client sends XADD, directly and in transactions
NextStream ==
  /\ \/ \E query \in StreamQueries : ncmds < MaxCmdsStream /\ Recv("c1", query)
     \/ ncmds < MaxCmdsStream /\ RecvExec("c1")
     \/ ExecStep("c1")
     \/ ExecEnd("c1")
  /\ UNCHANGED <<serverVars, replicaVars>>

SpecStream == Init /\ [][NextStream]_vars

\* two clients send reads, writes, MULTI, EXEC and DISCARD
NextTx ==
  /\ \/ \E c \in Conns, query \in TxQueries : ncmds < MaxCmdsTx /\ Recv(c, query)
     \/ \E c \in Conns : ncmds < MaxCmdsTx /\ RecvExec(c)
     \/ \E c \in Conns : ExecStep(c)
     \/ \E c \in Conns : ExecEnd(c)
  /\ UNCHANGED <<serverVars, replicaVars>>

SpecTx == Init /\ [][NextTx]_vars

\* ------------------------------------------------------------------------
\* GET inside a transaction
\* ------------------------------------------------------------------------

\* number of commands in one behaviour of SpecTxGet
MaxCmdsTxGet == 5

\* SpecTxGet: one client reads and writes a key in and out of transactions
TxGetQueries ==
  {<<"SET", "k", "">>, <<"SET", "k", "a">>, <<"SET", "k", "a", "px", "1">>,
   <<"GET", "k">>, <<"MULTI">>}

NextTxGet ==
  /\ \/ Tick
     \/ \E query \in TxGetQueries : ncmds < MaxCmdsTxGet /\ Recv("c1", query)
     \/ ncmds < MaxCmdsTxGet /\ RecvExec("c1")
     \/ ExecStep("c1")
     \/ ExecEnd("c1")
  /\ UNCHANGED <<serverVars, replicaVars>>

SpecTxGet == Init /\ [][NextTxGet]_vars

\* ------------------------------------------------------------------------
\* KEYS
\* ------------------------------------------------------------------------

\* number of commands in one behaviour of SpecKeys
MaxCmdsKeys == 4

\* SpecKeys: one client sets two keys, one of them with a TTL, and lists them
KeysQueries ==
  {<<"SET", "k", "a", "px", "1">>, <<"SET", "k", "a">>, <<"SET", "s", "1">>,
   <<"GET", "k">>, <<"KEYS", "*">>}

NextKeys ==
  /\ \/ Tick
     \/ \E query \in KeysQueries : ncmds < MaxCmdsKeys /\ Recv("c1", query)
  /\ UNCHANGED <<serverVars, replicaVars>>

SpecKeys == Init /\ [][NextKeys]_vars

\* ------------------------------------------------------------------------
\* INCR, then GET and TYPE
\* ------------------------------------------------------------------------

MaxCmdsIncr == 5

\* SpecIncr: one client counts a key up, from nothing, from 1 and from -1,
\* and reads it
IncrQueries ==
  {<<"SET", "k", "-1">>, <<"SET", "k", "1">>, <<"INCR", "k">>, <<"GET", "k">>,
   <<"TYPE", "k">>}

NextIncr ==
  /\ \/ Tick
     \/ \E query \in IncrQueries : ncmds < MaxCmdsIncr /\ Recv("c1", query)
  /\ UNCHANGED <<serverVars, replicaVars>>

SpecIncr == Init /\ [][NextIncr]_vars

\* ------------------------------------------------------------------------
\* command_handler.py: XREAD that blocks, _handle_xread and _wait_for_stream
\* ------------------------------------------------------------------------

\* number of commands in one behaviour of SpecXread
MaxCmdsXread == 4

\* SpecXread: two clients, XADD and XREAD on two streams
XaddQueries ==
  {<<"XADD", key, id, "f", "a">> : key \in Keys, id \in {"1-0", "1-1"}}

XreadQueries ==
  {<<"XREAD", "streams", "k", "s", "0-0", "0-0">>,
   <<"XREAD", "streams", "s", "k", "0-0", "0-0">>,
   <<"XREAD", "streams", "s", "1-0">>,
   <<"XREAD", "streams", "s">>}

XreadBlockQueries ==
  {<<"XREAD", "block", "2", "streams", "s", "0-0">>,
   <<"XREAD", "block", "2", "streams", "s", "k", "1-0", "0-0">>,
   <<"XREAD", "block", "0", "streams", "s", "0-0">>,
   <<"XREAD", "block", "a", "streams", "s", "0-0">>}

\* _handle_xread at one of its awaits: it has returned (done) with a reply,
\* or it sleeps in _wait_for_stream for the pair i with the entries of its
\* latest query; fresh says that this call of _wait_for_stream has begun now
XreadDone(reply) ==
  [done |-> TRUE, reply |-> reply, i |-> 0, response |-> << >>,
   stream |-> << >>, fresh |-> FALSE]
XreadSleeps(i, resp, stream, fresh) ==
  [done |-> FALSE, reply |-> Raised, i |-> i, response |-> resp,
   stream |-> stream, fresh |-> fresh]

RECURSIVE XreadRun(_, _, _, _, _)
RECURSIVE XreadEnter(_, _, _, _, _, _)

\* _wait_for_stream for the pair i up to its first sleep, stream being the
\* entries of its first query: with a positive blocking_time it sleeps
\* whatever the query gave, else it sleeps only when the query gave nothing
XreadEnter(strs, rest, blocking_time, i, resp, stream) ==
  IF blocking_time > 0 THEN XreadSleeps(i, resp, stream, TRUE)
  ELSE IF Len(stream) = 0 THEN XreadSleeps(i, resp, stream, TRUE)
  ELSE XreadRun(strs, rest, blocking_time, i + 1,
                Append(resp, XreadItem(StreamKeysOf(rest)[i], stream)))

\* the for loop of _handle_xread with a blocking_time, from the pair i on
XreadRun(strs, rest, blocking_time, i, resp) ==
  IF i > Len(StreamKeysOf(rest)) THEN XreadDone(encode_array(resp))
  ELSE IF ~ParseEntryId(EntryIdsOf(rest)[i]).ok THEN XreadDone(Raised)
  ELSE XreadEnter(strs, rest, blocking_time, i, resp,
                  query_from_stream(strs, StreamKeysOf(rest)[i],
                                    EntryIdsOf(rest)[i], FALSE))

\* "if len(stream) == 0: return encode_bulk_string(None)" and the rest of
\* the loop, once _wait_for_stream has returned stream for the pair i
XreadAfterWait(strs, rest, blocking_time, i, resp, stream) ==
  IF Len(stream) = 0 THEN XreadDone(encode_bulk_string(None))
  ELSE XreadRun(strs, rest, blocking_time, i + 1,
                Append(resp, XreadItem(StreamKeysOf(rest)[i], stream)))

\* "while time.time() - now < blocking_time / 10e2": whether the loop of a
\* positive blocking_time takes another turn; stream is what it holds
KeepsWaiting(blocking_time, started, t, stream) == t - started < blocking_time

\* _wait_for_stream after a sleep, at time t: the next test of its loop.
\* stream is what its latest query gave, polled what a query gives now
XreadWake(strs, rest, blocking_time, i, resp, stream, polled, started, t) ==
  IF blocking_time > 0
    THEN IF KeepsWaiting(blocking_time, started, t, stream)
           THEN XreadSleeps(i, resp, polled, FALSE)
           ELSE XreadAfterWait(strs, rest, blocking_time, i, resp, stream)
  ELSE IF Len(polled) = 0 THEN XreadSleeps(i, resp, polled, FALSE)
  ELSE XreadAfterWait(strs, rest, blocking_time, i, resp, polled)

\* the call of c goes on as r says: it returns its reply, or it sleeps
XreadApply(c, query, r) ==
  IF r.done
    THEN /\ last' = Step(c, query, r.reply,
                         IF r.reply = Raised THEN "raise" ELSE "xread",
                         "client", command_queues)
         /\ lastDid' = [lastDid EXCEPT ![c] =
                          IF r.reply = Raised THEN "raise" ELSE "xread"]
         /\ pc' = [pc EXCEPT ![c] =
                     AfterCall(IF r.reply = Raised THEN "raise" ELSE "xread")]
         /\ response' = [response EXCEPT ![c] = << >>]
         /\ task' = [task EXCEPT ![c] = NewTask]
    ELSE /\ pc' = [pc EXCEPT ![c] = "xread"]
         /\ response' = [response EXCEPT ![c] = r.response]
         /\ task' = [task EXCEPT ![c] =
               [NewTask EXCEPT !.query = query, !.i = r.i, !.stream = r.stream,
                               !.started = IF r.fresh THEN now ELSE task[c].started]]
         /\ UNCHANGED <<last, lastDid>>

\* int(blocking_time), not ok for ValueError
BlockingTime(query) == ParseInt(query[3])

\* *arguments of case ["XREAD", "block", blocking_time, "streams", *arguments]
BlockArguments(query) == SubSeq(query, 5, Len(query))

\* _handle_xread(*arguments, blocking_time=int(blocking_time)) up to its
\* first sleep or its return
XreadStart(strs, query) ==
  IF ~BlockingTime(query).ok THEN XreadDone(Raised)
  ELSE IF Len(BlockArguments(query)) % 2 # 0 THEN XreadDone(Raised)
  ELSE IF BlockingTime(query).n = 0 - 1
    THEN XreadDone(XreadLoop(strs, BlockArguments(query), 1, << >>))
  ELSE XreadRun(strs, BlockArguments(query), BlockingTime(query).n, 1, << >>)

\* handle_command(query, writer=c) for an XREAD with block
XreadBlock(c, query) ==
  /\ pc[c] = "idle"
  /\ running = NoTask
  /\ ncmds < MaxCmdsXread
  /\ ncmds' = ncmds + 1
  /\ XreadApply(c, query, XreadStart(streams, query))
  /\ UNCHANGED <<now, storeVars, running, lastWrite, execSnap, execRan, inTx,
                 replicas, master_repl_offset, wire, committed, nreads,
                 replicaVars>>

\* the task of c wakes from asyncio.sleep(0.01) inside _wait_for_stream
XreadPoll(c) ==
  /\ pc[c] = "xread"
  /\ running = NoTask
  /\ XreadApply(c, task[c].query,
       XreadWake(streams, BlockArguments(task[c].query),
                 BlockingTime(task[c].query).n, task[c].i, response[c],
                 task[c].stream,
                 query_from_stream(streams,
                                   StreamKeysOf(BlockArguments(task[c].query))[task[c].i],
                                   EntryIdsOf(BlockArguments(task[c].query))[task[c].i],
                                   FALSE),
                 task[c].started, now))
  /\ UNCHANGED <<now, storeVars, running, ncmds, lastWrite, execSnap, execRan,
                 inTx, replicas, master_repl_offset, wire, committed, nreads,
                 replicaVars>>

\* handle_command(query, writer=c) for an XREAD without block
XreadNow(c, query) ==
  /\ pc[c] = "idle"
  /\ CanRun(c)
  /\ ncmds < MaxCmdsXread
  /\ ncmds' = ncmds + 1
  /\ RecvDone(c, query, HandleXread(kv, streams, command_queues, query))
  /\ UNCHANGED <<now, response, running, execSnap, execRan, inTx, serverVars,
                 replicaVars>>

\* XADD
XreadRecv(c, query) ==
  /\ ncmds < MaxCmdsXread
  /\ Recv(c, query)
  /\ UNCHANGED <<serverVars, replicaVars>>

\* the clock, while clients add to streams and read them
XreadTick == Tick /\ UNCHANGED <<serverVars, replicaVars>>

NextXread ==
  \/ XreadTick
  \/ \E query \in XaddQueries : XreadRecv("c2", query)
  \/ \E query \in XreadQueries : XreadNow("c1", query)
  \/ \E query \in XreadBlockQueries : XreadBlock("c1", query)
  \/ XreadPoll("c1")

SpecXread == Init /\ [][NextXread]_vars

\* XREAD block 0 over one stream and over two
XreadForeverQueries ==
  {<<"XREAD", "block", "0", "streams", "s", "0-0">>,
   <<"XREAD", "block", "0", "streams", "s", "k", "0-0", "0-0">>,
   <<"XREAD", "block", "0", "streams", "k", "s", "1-0", "0-0">>}

NextXreadForever ==
  \/ XreadTick
  \/ \E query \in XaddQueries : XreadRecv("c2", query)
  \/ \E query \in XreadForeverQueries : XreadBlock("c1", query)
  \/ XreadPoll("c1")

\* asyncio.sleep(0.01) ends: the task that sleeps in _wait_for_stream is
\* woken again and again
SpecXreadForever ==
  Init /\ [][NextXreadForever]_vars /\ WF_vars(XreadPoll("c1"))

\* ------------------------------------------------------------------------
\* parsers.py: RDBParser; server.py: _load_rdb
\*
\* A file is the sequence of its bytes, each a number from 0 to 255.
\* ------------------------------------------------------------------------

\* the byte of a character of the keys and values of the files
Ord(c) ==
  CASE c = "a" -> 97 [] c = "k" -> 107 [] c = "s" -> 115 [] c = "1" -> 49
    [] c = "0" -> 48 [] c = "R" -> 82 [] c = "E" -> 69 [] c = "D" -> 68
    [] c = "I" -> 73 [] c = "S" -> 83

\* data.decode(): the str of the bytes
Decode(data) ==
  StrOfChars([i \in 1..Len(data) |->
                CHOOSE c \in {"a", "k", "s", "1", "0"} : Ord(c) = data[i]])

\* int.from_bytes(data, byteorder="little")
RECURSIVE FromBytesLittle(_)
FromBytesLittle(data) ==
  IF data = << >> THEN 0 ELSE Head(data) + 256 * FromBytesLittle(Tail(data))

\* int.from_bytes(data): the byte order is "big" when none is given
RECURSIVE FromBytesBig(_)
FromBytesBig(data) ==
  IF data = << >> THEN 0
  ELSE data[Len(data)] + 256 * FromBytesBig(SubSeq(data, 1, Len(data) - 1))

\* _read_bytes(n) at pos: the slice may be shorter than n at the end of the
\* buffer
ReadBytes(buffer, pos, n) ==
  SubSeq(buffer, pos + 1, IF pos + n > Len(buffer) THEN Len(buffer) ELSE pos + n)

\* the outcome of a step of the parser: the value it read and the position
\* after it; not ok stands for an exception
RdbRead(value, pos) == [ok |-> TRUE, value |-> value, pos |-> pos]
RdbError == [ok |-> FALSE, value |-> None, pos |-> 0]

\* _parse_length(byte): the number of bytes that follow and their type
ParseLength(byte) ==
  IF byte \div 64 = 0 THEN [ok |-> TRUE, length |-> byte % 64, type |-> "str"]
  ELSE IF byte \div 64 = 3 /\ byte % 64 \in {0, 1, 2}
    THEN [ok |-> TRUE, length |-> 2 ^ (byte % 64), type |-> "int"]
  ELSE [ok |-> FALSE, length |-> 0, type |-> "str"]

\* _parse_string, once the length byte has been read and decoded
ParseStringOf(buffer, pos, len) ==
  IF ~len.ok THEN RdbError
  ELSE IF len.type = "int"
    THEN RdbRead(PyInt(FromBytesBig(ReadBytes(buffer, pos, len.length))),
                 pos + len.length)
  ELSE RdbRead(PyStr(Decode(ReadBytes(buffer, pos, len.length))),
               pos + len.length)

\* _parse_string at pos; _read_byte raises IndexError at the end of the buffer
ParseString(buffer, pos) ==
  IF pos >= Len(buffer) THEN RdbError
  ELSE ParseStringOf(buffer, pos + 1, ParseLength(buffer[pos + 1]))

EXPIRY_IN_SECONDS_MARKER == 253
EXPIRY_IN_MILLISECONDS_MARKER == 252
EOF_MARKER == 255
DATABASE_START_MARKER == 254
HASH_TABLE_MARKER == 251
METADATA_FIELD_MARKER == 250

\* the number of bytes _parse_expiry reads after the type byte
ExpiryWidth(type_byte) ==
  IF type_byte = EXPIRY_IN_SECONDS_MARKER THEN 4
  ELSE IF type_byte = EXPIRY_IN_MILLISECONDS_MARKER THEN 8
  ELSE 0

\* "int.from_bytes(expiration_data, byteorder='little') / 1e3", a time in
\* seconds, here in the milliseconds of the model's clock: the number that
\* was read is divided by 1e3 after either marker
ExpiryMs(type_byte, n) == n

\* _parse_expiry(type_byte) at pos: None without a marker, else the expiry
ParseExpiry(buffer, pos, type_byte) ==
  IF ReadBytes(buffer, pos, ExpiryWidth(type_byte)) = << >>
    THEN [expiry |-> NoExpiry, pos |-> pos]
    ELSE [expiry |->
            [some |-> TRUE,
             at |-> ExpiryMs(type_byte,
                             FromBytesLittle(ReadBytes(buffer, pos,
                                                       ExpiryWidth(type_byte))))],
          pos |-> pos + ExpiryWidth(type_byte)]

\* "if expiry": None and 0.0 are false
ExpiryTruthy(expiry) == expiry.some /\ expiry.at # 0

RECURSIVE ParseKeyValuePairs(_, _, _)

\* key = _parse_string(); value = _parse_string(); result[key] = Container
ParsePair(buffer, result, expiry, key, value) ==
  IF ~key.ok \/ ~value.ok THEN [ok |-> FALSE, result |-> result]
  ELSE ParseKeyValuePairs(buffer, value.pos,
                          DictPut(result, ToStr(key.value),
                                  Container(value.value, expiry)))

\* the rest of a turn of the loop after _parse_expiry: with an expiry the
\* byte of the data type is read next
ParseAfterExpiry(buffer, result, e) ==
  IF ExpiryTruthy(e.expiry)
    THEN IF e.pos >= Len(buffer) THEN [ok |-> FALSE, result |-> result]
         ELSE ParsePair(buffer, result, e.expiry, ParseString(buffer, e.pos + 1),
                        ParseString(buffer, ParseString(buffer, e.pos + 1).pos))
    ELSE ParsePair(buffer, result, e.expiry, ParseString(buffer, e.pos),
                   ParseString(buffer, ParseString(buffer, e.pos).pos))

\* _parse_key_value_pairs from pos on
ParseKeyValuePairs(buffer, pos, result) ==
  IF pos >= Len(buffer) THEN [ok |-> FALSE, result |-> result]
  ELSE IF buffer[pos + 1] = EOF_MARKER THEN [ok |-> TRUE, result |-> result]
  ELSE ParseAfterExpiry(buffer, result,
                        ParseExpiry(buffer, pos + 1, buffer[pos + 1]))

\* MAGIC_STRING and a version of four digits
RdbHeader == <<82, 69, 68, 73, 83, 48, 48, 49, 49>>

\* _parse_header: the magic string, then int(version)
HeaderOk(buffer) ==
  /\ ReadBytes(buffer, 0, 5) = SubSeq(RdbHeader, 1, 5)
  /\ Len(ReadBytes(buffer, 5, 4)) > 0
  /\ \A i \in 1..Len(ReadBytes(buffer, 5, 4)) :
       ReadBytes(buffer, 5, 4)[i] \in 48..57

\* _parse_metadata from pos on: the position of the first byte that is not
\* the marker of a metadata field
RECURSIVE ParseMetadata(_, _)
ParseMetadata(buffer, pos) ==
  IF pos >= Len(buffer) THEN RdbError
  ELSE IF buffer[pos + 1] # METADATA_FIELD_MARKER THEN RdbRead(None, pos)
  ELSE IF ~ParseString(buffer, pos + 1).ok THEN RdbError
  ELSE IF ~ParseString(buffer, ParseString(buffer, pos + 1).pos).ok THEN RdbError
  ELSE ParseMetadata(buffer, ParseString(buffer, ParseString(buffer, pos + 1).pos).pos)

\* _parse_database_subsection at pos: five bytes, two of them markers
DatabaseSubsectionOk(buffer, pos) ==
  /\ pos + 5 <= Len(buffer)
  /\ buffer[pos + 1] = DATABASE_START_MARKER
  /\ buffer[pos + 3] = HASH_TABLE_MARKER

\* RDBParser.parse(): the records of the file
RdbParse(buffer) ==
  IF ~HeaderOk(buffer) THEN [ok |-> FALSE, result |-> << >>]
  ELSE IF ~ParseMetadata(buffer, 9).ok THEN [ok |-> FALSE, result |-> << >>]
  ELSE IF ~DatabaseSubsectionOk(buffer, ParseMetadata(buffer, 9).pos)
    THEN [ok |-> FALSE, result |-> << >>]
  ELSE ParseKeyValuePairs(buffer, ParseMetadata(buffer, 9).pos + 5, << >>)

\* _load_rdb: "for key, value in records.items(): self.datastore[key] = value"
LoadRdb(buffer) == RdbParse(buffer).result

\* ------------------------------------------------------------------------
\* The RDB files the server starts from
\* ------------------------------------------------------------------------

\* number of commands in one behaviour of SpecRdb
MaxCmdsRdb == 3

\* n as width bytes, least significant first
RECURSIVE LittleEndian(_, _)
LittleEndian(n, width) ==
  IF width = 0 THEN << >> ELSE <<n % 256>> \o LittleEndian(n \div 256, width - 1)

\* a string with its length in front
RdbString(s) == <<Len(Chars(s))>> \o [i \in 1..Len(Chars(s)) |-> Ord(Chars(s)[i])]

\* the expiry of an entry of a file: none, seconds after 0xFD, or
\* milliseconds after 0xFC
RdbExpiries ==
  {[marker |-> "none", n |-> 0],
   [marker |-> "FD", n |-> 1], [marker |-> "FC", n |-> 1000],
   [marker |-> "FD", n |-> 2], [marker |-> "FC", n |-> 2000]}

\* the bytes of an entry: the expiry, the type of the value, key and value
RdbEntry(key, value, exp) ==
  (IF exp.marker = "FD"
     THEN <<EXPIRY_IN_SECONDS_MARKER>> \o LittleEndian(exp.n, 4)
   ELSE IF exp.marker = "FC"
     THEN <<EXPIRY_IN_MILLISECONDS_MARKER>> \o LittleEndian(exp.n, 8)
   ELSE << >>)
    \o <<0>> \o RdbString(key) \o RdbString(value)

\* a file with an entry for k and one for s
RdbFile(expk, exps) ==
  RdbHeader \o <<DATABASE_START_MARKER, 0, HASH_TABLE_MARKER, 2, 2>>
    \o RdbEntry("k", "a", expk) \o RdbEntry("s", "1", exps) \o <<EOF_MARKER>>

\* history: what the file says of an entry, the deadline in milliseconds
RdbWrite(value, exp) ==
  [kind |-> IF exp.marker = "FD" THEN "rdb_s"
            ELSE IF exp.marker = "FC" THEN "rdb_ms" ELSE "rdb_none",
   value |-> value,
   at |-> IF exp.marker = "FD" THEN 1000 * exp.n ELSE exp.n, ms |-> 0]

\* the times the clock of SpecRdb shows
RdbTimes == {1, 3, 999, 1001, 1999, 2001}

\* the server after _setup with an RDB file in its directory
InitRdb ==
  /\ InitServer
  /\ InitNoReplica
  /\ now = 1
  /\ streams = [key \in Keys |-> << >>]
  /\ command_queues = [c \in Conns |-> << >>]
  /\ pc = [c \in Conns |-> "idle"]
  /\ response = [c \in Conns |-> << >>]
  /\ running = NoTask
  /\ ncmds = 0
  /\ last = [seq |-> 0, conn |-> NoTask, query |-> << >>, reply |-> Raised,
             did |-> "init", via |-> "init", at |-> 0, prev |-> "init",
             dropped |-> 0]
  /\ lastDid = [c \in Conns |-> "init"]
  /\ execSnap = [c \in Conns |-> << >>]
  /\ execRan = [c \in Conns |-> << >>]
  /\ inTx = [c \in Conns |-> FALSE]
  /\ \E expk, exps \in RdbExpiries :
       /\ RdbParse(RdbFile(expk, exps)).ok
       /\ kv = LoadRdb(RdbFile(expk, exps))
       /\ lastWrite = [key \in Keys |->
                         IF key = "k" THEN RdbWrite("a", expk)
                         ELSE RdbWrite("1", exps)]

\* time passes
RdbTick ==
  /\ \E t \in RdbTimes : t > now /\ now' = t
  /\ UNCHANGED <<kv, streams, command_queues, pc, response, running, ncmds,
                 last, lastDid, lastWrite, execSnap, execRan, inTx>>
  /\ UNCHANGED <<serverVars, replicaVars>>

\* a client reads the keys of the file
RdbRecv(c, query) ==
  /\ ncmds < MaxCmdsRdb
  /\ Recv(c, query)
  /\ UNCHANGED <<serverVars, replicaVars>>

NextRdb ==
  \/ RdbTick
  \/ \E key \in Keys : RdbRecv("c1", <<"GET", key>>)

SpecRdb == InitRdb /\ [][NextRdb]_vars

\* ------------------------------------------------------------------------
\* server.py: _process_connection; replication.py: handle_replication and
\* handle_full_resync
\* ------------------------------------------------------------------------

\* number of reads the server makes in one behaviour of SpecServer
MaxReads == 3

\* a frame that parse returns None for
NullFrame == << <<"*", "-", "1">> >>

\* what one read returns: the frames of the queries, then either a null
\* frame or nothing; the chunk after the last CRLF is empty
ReadOf(queries, null) ==
  FramesOf(queries) \o (IF null THEN NullFrame ELSE << >>) \o << << >> >>

\* the reads of a client
ClientReads ==
  {[queries |-> << <<"SET", "k", "a">> >>, null |-> TRUE],
   [queries |-> << <<"SET", "k", "a">>, <<"PING">> >>, null |-> FALSE],
   [queries |-> << <<"INCR", "k">> >>, null |-> TRUE],
   [queries |-> << <<"MULTI">>, <<"SET", "k", "b">>, <<"EXEC">> >>, null |-> TRUE],
   [queries |-> << <<"WAIT", "1", "1">> >>, null |-> TRUE],
   [queries |-> << BadQuery, <<"PING">> >>, null |-> FALSE]}

\* the reads of the second client
OtherClientReads == {[queries |-> << <<"SET", "k", "b">> >>, null |-> TRUE]}

\* the reads of a replica
ReplicaReads ==
  {[queries |-> << <<"REPLCONF", "listening-port", "1">>,
                   <<"REPLCONF", "capa", "psync2">> >>, null |-> TRUE],
   [queries |-> << <<"PSYNC", "?", "-1">> >>, null |-> TRUE]}

ReadsOf(p) ==
  IF p = "c1" THEN ClientReads
  ELSE IF p = "c2" THEN OtherClientReads
  ELSE ReplicaReads

\* what is written to a writer: a reply to a query, the data of a read
\* passed on to a replica (m is the place in committed of the write that
\* made handle_replication run), the header and the bytes of the RDB file
WReply(query, reply) ==
  [kind |-> "reply", query |-> query, reply |-> reply, data |-> << >>, m |-> 0]
WData(data, m) ==
  [kind |-> "data", query |-> << >>, reply |-> Raised, data |-> data, m |-> m]
WRdbHeader ==
  [kind |-> "rdblen", query |-> << >>, reply |-> Raised, data |-> << >>, m |-> 0]
WRdb ==
  [kind |-> "rdb", query |-> << >>, reply |-> Raised, data |-> << >>, m |-> 0]

\* the connection is closed: writer.close() in the finally
IsClosed(p) == task[p].pc = "closed"

\* history: the replica sinks, the open connections that are in the
\* replicas and that the RDB file has been written to
IsSink(p) ==
  /\ ~IsClosed(p)
  /\ HasReplica(replicas, p)
  /\ \E i \in 1..Len(wire[p]) : wire[p][i].kind = "rdb"

Sinks == {p \in Peers : IsSink(p)}

\* "await writer.drain()" returns at once, or suspends the task while the
\* peer is slow to read: the task keeps the event loop, or gives it up
AfterDrain(p) == {p, NoTask}

\* the arguments the server calls handle_command with besides the query and
\* the writer: the replicas and, as offset, the offset of the master
ServerArgs(reps, repl_offset) == [replicas |-> reps, offset |-> repl_offset]

\* handle_command, all its cases but WAIT
handle_command_all(kvS, strs, queues, reps, writer, query0, t, offset, repl_offset) ==
  IF Len(query0) = 1 /\ Upper(query0[1]) = "EXEC"
    THEN ExecCall(kvS, strs, queues, reps, writer, t)
    ELSE handle_command_repl(kvS, strs, queues, reps, writer, query0, t,
                             offset, repl_offset)

\* response = handle_command(query, writer), as the evaluator is meant to be
\* called: with the writer of the connection and ServerArgs
ServerCall(kvS, strs, queues, reps, writer, query0, t, repl_offset) ==
  handle_command_all(kvS, strs, queues, ServerArgs(reps, repl_offset).replicas,
                     writer, query0, t, ServerArgs(reps, repl_offset).offset,
                     repl_offset)

\* history: the writes a call has made, with the sinks of that moment; m is
\* the place in committed of the last write of the call
Commits(p, query, r) ==
  LET ran == SelectSeq(r.ran, LAMBDA x : x.did \in WriteDids)
      m   == Len(committed) + Len(ran) + (IF r.did \in WriteDids THEN 1 ELSE 0)
      direct == IF r.did \in WriteDids
                  THEN << [conn |-> p, query |-> query, via |-> "client",
                           sinks |-> Sinks, m |-> m] >>
                  ELSE << >>
  IN  direct \o [i \in 1..Len(ran) |->
                   [conn |-> p, query |-> ran[i].query, via |-> "exec",
                    sinks |-> Sinks, m |-> m]]

\* if "SET" in query and "OK" in response
Propagates(query, reply) ==
  (\E i \in 1..Len(query) : query[i] = "SET")
    /\ Contains(Encode(reply), <<"O", "K">>)

\* if "FULLRESYNC" in response
IsFullResync(reply) ==
  Contains(Encode(reply), <<"F", "U", "L", "L", "R", "E", "S", "Y", "N", "C">>)

\* the except and the finally of _process_connection
Close(p) ==
  /\ task' = [task EXCEPT ![p] = [@ EXCEPT !.pc = "closed", !.deque = << >>]]
  /\ running' = NoTask

\* reader.read returns data: the parser is made, the task runs
SrvRead(p, rd) ==
  /\ task[p].pc = "read"
  /\ running = NoTask
  /\ nreads < MaxReads
  /\ nreads' = nreads + 1
  /\ task' = [task EXCEPT ![p] =
       [NewTask EXCEPT !.pc = "parse", !.deque = ReadOf(rd.queries, rd.null),
                       !.data = ReadOf(rd.queries, rd.null),
                       !.frames = rd.queries, !.w0 = Len(wire[p])]]
  /\ running' = p
  /\ UNCHANGED <<now, storeVars, stepVars, replicas, master_repl_offset, wire,
                 committed, replicaVars>>

\* the places a frame is cut at when its bytes come in two reads: <<k, j>>
\* is after k whole lines and j characters of the next line
Cuts == {<<1, 0>>, <<3, 2>>, <<6, 1>>}

\* the bytes of the frames up to the cut, as data.split(b"\r\n") gives them:
\* the chunk after the last CRLF is the piece of the line that was cut
PartOf(queries, cut) ==
  SubSeq(FramesOf(queries), 1, cut[1])
    \o << SubSeq(FramesOf(queries)[cut[1] + 1], 1, cut[2]) >>

\* reader.read returns the first bytes of a frame only, the rest of the
\* frame is still on its way: the parser is made of what was read
SrvReadPart(p, rd, cut) ==
  /\ task[p].pc = "read"
  /\ running = NoTask
  /\ nreads < MaxReads
  /\ cut[1] < Len(FramesOf(rd.queries))
  /\ cut[2] <= Len(FramesOf(rd.queries)[cut[1] + 1])
  /\ nreads' = nreads + 1
  /\ task' = [task EXCEPT ![p] =
       [NewTask EXCEPT !.pc = "parse", !.deque = PartOf(rd.queries, cut),
                       !.data = PartOf(rd.queries, cut),
                       !.frames = rd.queries, !.w0 = Len(wire[p]),
                       !.part = TRUE]]
  /\ running' = p
  /\ UNCHANGED <<now, storeVars, stepVars, replicas, master_repl_offset, wire,
                 committed, replicaVars>>

\* reader.read returns b"": the peer has closed, the loop ends
SrvEof(p) ==
  /\ task[p].pc = "read"
  /\ running = NoTask
  /\ nreads > 0
  /\ Close(p)
  /\ UNCHANGED <<now, storeVars, stepVars, replicas, master_repl_offset, wire,
                 committed, nreads, replicaVars>>

\* writer.write(response.encode()); await writer.drain(), after a call that
\* returned r
SrvReply(p, query, rest, r) ==
  /\ kv' = r.kv
  /\ streams' = r.streams
  /\ command_queues' = r.queues
  /\ replicas' = r.replicas
  /\ wire' = [wire EXCEPT ![p] = Append(@, WReply(query, r.reply))]
  /\ committed' = committed \o Commits(p, query, r)
  /\ task' = [task EXCEPT ![p] =
       [@ EXCEPT !.pc = "replied", !.deque = rest, !.query = query,
                 !.reply = r.reply,
                 !.m = IF Commits(p, query, r) = << >> THEN 0
                       ELSE Len(committed) + Len(Commits(p, query, r))]]
  /\ \E next \in AfterDrain(p) : running' = next

\* a call that raised: what it changed stays changed, the connection closes
SrvRaise(p, query, r) ==
  /\ kv' = r.kv
  /\ streams' = r.streams
  /\ command_queues' = r.queues
  /\ replicas' = r.replicas
  /\ committed' = committed \o Commits(p, query, r)
  /\ Close(p)
  /\ UNCHANGED wire

\* case ["WAIT", num_replicas, timeout]: _handle_wait up to its first sleep
SrvWait(p, query, rest) ==
  LET num_replicas == ParseInt(query[2])
      timeout      == ParseInt(query[3])
      args         == ServerArgs(replicas, master_repl_offset)
      caught       == CaughtUp(args.replicas, args.offset)
      same         == Result(kv, streams, command_queues, Raised, "raise")
  IN  IF ~num_replicas.ok \/ ~timeout.ok
        THEN SrvRaise(p, query, ResultR(same, replicas))
      ELSE IF WaitIsOver(caught, num_replicas.n, timeout.n, now, now)
        THEN SrvReply(p, query, rest,
               ResultR([same EXCEPT !.reply = encode_integer(Cardinality(caught)),
                                    !.did = "wait"], replicas))
      ELSE /\ task' = [task EXCEPT ![p] =
                 [@ EXCEPT !.pc = "wait", !.deque = rest, !.query = query,
                           !.started = now, !.num = num_replicas.n,
                           !.timeout = timeout.n, !.moff = args.offset,
                           !.caught = caught]]
           /\ running' = NoTask
           /\ UNCHANGED <<storeVars, replicas, wire, committed>>

\* query := parser.parse() and the call of handle_command
SrvParse(p) ==
  /\ task[p].pc = "parse"
  /\ running = p
  /\ LET pr     == parse(task[p].deque)
         query0 == QueryOf(pr.value)
         query  == [query0 EXCEPT ![1] = Upper(@)]
         r      == ServerCall(kv, streams, command_queues, replicas, p, query0,
                              now, master_repl_offset)
     IN  IF pr.raised \/ (ParsedTruthy(pr.value) /\ ~IsQuery(pr.value))
           THEN Close(p) /\ UNCHANGED <<storeVars, replicas, wire, committed>>
         ELSE IF ~ParsedTruthy(pr.value)
           THEN /\ task' = [task EXCEPT ![p] =
                      [@ EXCEPT !.pc = "read", !.deque = pr.data]]
                /\ running' = NoTask
                /\ UNCHANGED <<storeVars, replicas, wire, committed>>
         ELSE IF Len(query) = 3 /\ query[1] = "WAIT"
           THEN SrvWait(p, query, pr.data)
         ELSE IF r.did = "raise" THEN SrvRaise(p, query, r)
         ELSE SrvReply(p, query, pr.data, r)
  /\ UNCHANGED <<now, stepVars, master_repl_offset, nreads, replicaVars>>

\* _handle_wait after a sleep: the next turn of its loop
SrvWaitPoll(p) ==
  /\ task[p].pc = "wait"
  /\ running = NoTask
  /\ LET caught == task[p].caught \cup CaughtUp(replicas, task[p].moff)
         same   == Result(kv, streams, command_queues, Raised, "raise")
     IN  IF WaitIsOver(caught, task[p].num, task[p].timeout, task[p].started, now)
           THEN SrvReply(p, task[p].query, task[p].deque,
                  ResultR([same EXCEPT
                             !.reply = encode_integer(Cardinality(caught)),
                             !.did = "wait"], replicas))
           ELSE /\ task' = [task EXCEPT ![p] = [@ EXCEPT !.caught = caught]]
                /\ UNCHANGED <<storeVars, replicas, wire, committed, running>>
  /\ UNCHANGED <<now, stepVars, master_repl_offset, nreads, replicaVars>>

\* after handle_replication, or without it: handle_full_resync writes the
\* header of the RDB file if the response was a FULLRESYNC, else the loop
\* goes on with the next frame
AfterReplication(p, w) ==
  /\ IF IsFullResync(task[p].reply)
       THEN /\ wire' = [w EXCEPT ![p] = Append(@, WRdbHeader)]
            /\ task' = [task EXCEPT ![p] = [@ EXCEPT !.pc = "resync1"]]
            /\ \E next \in AfterDrain(p) : running' = next
       ELSE /\ wire' = w
            /\ task' = [task EXCEPT ![p] = [@ EXCEPT !.pc = "parse"]]
            /\ running' = p

\* handle_replication(data) from its turn i + 1 on, n0 being the number of
\* replicas when the loop began: the dict must not have grown meanwhile;
\* the data is written to the next replica and drained, which raises when
\* that connection is closed; after the last replica the offset grows
Replicate(p, i, n0) ==
  IF Len(replicas) # n0
    THEN Close(p) /\ UNCHANGED <<wire, master_repl_offset>>
  ELSE IF i < n0
    THEN IF IsClosed(replicas[i + 1].connection)
           THEN Close(p) /\ UNCHANGED <<wire, master_repl_offset>>
           ELSE /\ wire' = [wire EXCEPT ![replicas[i + 1].connection] =
                              Append(@, WData(task[p].data, task[p].m))]
                /\ task' = [task EXCEPT ![p] =
                      [@ EXCEPT !.pc = "fanout", !.i = i + 1, !.n0 = n0]]
                /\ \E next \in AfterDrain(p) : running' = next
                /\ UNCHANGED master_repl_offset
  ELSE /\ master_repl_offset' = master_repl_offset + DataLen(task[p].data)
       /\ AfterReplication(p, wire)

\* after the reply is drained: the two tests on query and response
SrvAfterReply(p) ==
  /\ task[p].pc = "replied"
  /\ CanRun(p)
  /\ IF Propagates(task[p].query, task[p].reply)
       THEN Replicate(p, 0, Len(replicas))
       ELSE AfterReplication(p, wire) /\ UNCHANGED master_repl_offset
  /\ UNCHANGED <<now, storeVars, stepVars, replicas, committed, nreads,
                 replicaVars>>

\* handle_replication after the drain of a replica
SrvFanout(p) ==
  /\ task[p].pc = "fanout"
  /\ CanRun(p)
  /\ Replicate(p, task[p].i, task[p].n0)
  /\ UNCHANGED <<now, storeVars, stepVars, replicas, committed, nreads,
                 replicaVars>>

\* handle_full_resync after the drain of the header: the bytes of the file;
\* after their drain the loop goes on
SrvResync(p) ==
  /\ task[p].pc \in {"resync1", "resync2"}
  /\ CanRun(p)
  /\ IF task[p].pc = "resync1"
       THEN /\ wire' = [wire EXCEPT ![p] = Append(@, WRdb)]
            /\ task' = [task EXCEPT ![p] = [@ EXCEPT !.pc = "resync2"]]
            /\ \E next \in AfterDrain(p) : running' = next
       ELSE /\ task' = [task EXCEPT ![p] = [@ EXCEPT !.pc = "parse"]]
            /\ running' = p
            /\ UNCHANGED wire
  /\ UNCHANGED <<now, storeVars, stepVars, replicas, master_repl_offset,
                 committed, nreads, replicaVars>>

\* the clock, for the connection server
SrvTick == Tick /\ UNCHANGED <<serverVars, replicaVars>>

\* a master: two clients and a replica connect, send reads and close
NextServer ==
  \/ SrvTick
  \/ \E p \in Peers : \E rd \in ReadsOf(p) : SrvRead(p, rd)
  \/ \E rd \in OtherClientReads : \E cut \in Cuts : SrvReadPart("c2", rd, cut)
  \/ \E p \in Peers : SrvEof(p)
  \/ \E p \in Peers : SrvParse(p)
  \/ \E p \in Peers : SrvWaitPoll(p)
  \/ \E p \in Peers : SrvAfterReply(p)
  \/ \E p \in Peers : SrvFanout(p)
  \/ \E p \in Peers : SrvResync(p)

SpecServer == Init /\ [][NextServer]_vars

\* reads of a client that carry one command or several pipelined ones
PipelinedReads ==
  {[queries |-> << <<"SET", "k", "a">> >>, null |-> TRUE],
   [queries |-> << <<"SET", "k", "a">>, <<"SET", "k", "b">> >>, null |-> FALSE],
   [queries |-> << <<"SET", "k", "a">>, <<"GET", "k">> >>, null |-> FALSE],
   [queries |-> << <<"ECHO", "SET", "OK">> >>, null |-> TRUE]}

\* a master: a client that pipelines and a replica
NextPipeline ==
  \/ \E rd \in PipelinedReads : SrvRead("c1", rd)
  \/ \E rd \in ReplicaReads : SrvRead("r1", rd)
  \/ \E p \in {"c1", "r1"} : SrvEof(p)
  \/ \E p \in {"c1", "r1"} : SrvParse(p)
  \/ \E p \in {"c1", "r1"} : SrvAfterReply(p)
  \/ \E p \in {"c1", "r1"} : SrvFanout(p)
  \/ \E p \in {"c1", "r1"} : SrvResync(p)

SpecPipeline == Init /\ [][NextPipeline]_vars

\* ------------------------------------------------------------------------
\* replication.py on a replica: _handle_replication_stream
\* ------------------------------------------------------------------------

MaxStreamReads == 3

\* on a replica, the connection to the master: the writer the stream passes
\* to handle_command
MasterConn == "c2"

GetAck == <<"REPLCONF", "GETACK", "*">>

\* what the master sends at a time and one read of the stream returns
MasterReads ==
  {[queries |-> << <<"SET", "k", "a">>, GetAck, GetAck >>, null |-> FALSE],
   [queries |-> << <<"SET", "k", "é">>, GetAck >>, null |-> FALSE],
   [queries |-> << <<"SET", "k", "b">> >>, null |-> FALSE],
   [queries |-> << <<"PING">>, GetAck >>, null |-> TRUE],
   [queries |-> << <<"SET", "k", "a">> >>, null |-> TRUE]}

\* the stream after connect_to_master has made its task: offset = 0, before
\* the first read
StreamStarted ==
  [pc |-> "read", deque |-> << >>, offset |-> 0, nframes |-> 0, eof |-> FALSE]

InitStream ==
  /\ hs = [pc |-> "done", step |-> 5, got |-> << >>]
  /\ master_out = << >>
  /\ strm = StreamStarted
  /\ inbox = << >>
  /\ sent = << >>
  /\ processed = << >>

\* the master writes commands to the connection of the replica, once the
\* replica has read what was sent before (else one read could return both)
MasterSend(rd) ==
  /\ ~strm.eof
  /\ inbox = << >>
  /\ nreads < MaxStreamReads
  /\ nreads' = nreads + 1
  /\ inbox' = Append(inbox, [data |-> ReadOf(rd.queries, rd.null),
                             base |-> Len(sent)])
  /\ sent' = sent \o rd.queries
  /\ UNCHANGED <<evalVars, replicas, master_repl_offset, task, wire, committed,
                 hs, master_out, strm, processed>>

\* data := await reader.read(BUFFER_SIZE_BYTES) returns what was sent at a
\* time: the parser is made
StrmRead ==
  /\ strm.pc = "read"
  /\ inbox # << >>
  /\ strm' = [strm EXCEPT !.pc = "parse", !.deque = Head(inbox).data,
                          !.nframes = Head(inbox).base]
  /\ inbox' = Tail(inbox)
  /\ UNCHANGED <<evalVars, serverVars, hs, master_out, sent, processed>>

\* the read returns b"": the master has closed, the loop ends and the
\* finally closes the writer
StrmEof ==
  /\ strm.pc = "read"
  /\ inbox = << >>
  /\ nreads > 0
  /\ strm' = [strm EXCEPT !.pc = "closed", !.eof = TRUE]
  /\ UNCHANGED <<evalVars, serverVars, hs, master_out, inbox, sent, processed>>

\* the except and the finally of _handle_replication_stream
StrmClose == strm' = [strm EXCEPT !.pc = "closed", !.deque = << >>]

\* len(handled_command): the characters of the command encoded again
HandledLen(query) == EncodedLen(Encode(EncodeQuery(query)))

\* if "REPLCONF" in query and "ACK" in response
IsAck(query, reply) ==
  (\E i \in 1..Len(query) : query[i] = "REPLCONF")
    /\ Contains(Encode(reply), <<"A", "C", "K">>)

\* a call that raised: what it changed stays changed, the exception leaves
\* the stream
StrmRaise(r) ==
  /\ StrmClose
  /\ kv' = r.kv
  /\ streams' = r.streams
  /\ command_queues' = r.queues
  /\ replicas' = r.replicas
  /\ UNCHANGED <<master_out, processed>>

\* after a call that returned r: the offset grows by the command encoded
\* again, the ACK is written
StrmHandled(query, rest, r) ==
  /\ kv' = r.kv
  /\ streams' = r.streams
  /\ command_queues' = r.queues
  /\ replicas' = r.replicas
  /\ strm' = [strm EXCEPT !.deque = rest, !.offset = @ + HandledLen(query),
                          !.nframes = @ + 1]
  /\ processed' = Append(processed,
       [idx |-> strm.nframes + 1, query |-> query, before |-> strm.offset,
        after |-> strm.offset + HandledLen(query)])
  /\ master_out' =
       IF IsAck(query, r.reply)
         THEN Append(master_out, [idx |-> strm.nframes + 1, reply |-> r.reply])
         ELSE master_out

\* the call of handle_command with the offset so far
StrmCall(query0) ==
  handle_command_all(kv, streams, command_queues, replicas, MasterConn, query0,
                     now, strm.offset, master_repl_offset)

\* query := parser.parse() and what follows in the loop
StrmParsed(pr) ==
  IF pr.raised \/ (ParsedTruthy(pr.value) /\ ~IsQuery(pr.value))
    THEN /\ StrmClose
         /\ UNCHANGED <<storeVars, replicas, master_out, processed>>
  ELSE IF ~ParsedTruthy(pr.value)
    THEN /\ strm' = [strm EXCEPT !.pc = "read", !.deque = pr.data]
         /\ UNCHANGED <<storeVars, replicas, master_out, processed>>
  ELSE IF StrmCall(QueryOf(pr.value)).did = "raise"
    THEN StrmRaise(StrmCall(QueryOf(pr.value)))
  ELSE StrmHandled([QueryOf(pr.value) EXCEPT ![1] = Upper(@)], pr.data,
                   StrmCall(QueryOf(pr.value)))

StrmParse ==
  /\ strm.pc = "parse"
  /\ StrmParsed(parse(strm.deque))
  /\ UNCHANGED <<now, stepVars, running, master_repl_offset, task, wire,
                 committed, nreads, hs, inbox, sent>>

\* the clock, for the replica
StrmTick == Tick /\ UNCHANGED <<serverVars, replicaVars>>

\* a replica in replication-stream mode: the master sends, the stream reads
NextReplStream ==
  \/ StrmTick
  \/ \E rd \in MasterReads : MasterSend(rd)
  \/ StrmRead
  \/ StrmEof
  \/ StrmParse

\* a replica whose handshake is over
InitReplStream == InitEvaluator /\ InitServer /\ InitStream

SpecReplStream == InitReplStream /\ [][NextReplStream]_vars

\* what a master may send besides writes: ECHO, PING, and GETACK among them
EchoReads ==
  {[queries |-> << <<"SET", "k", "a">>, <<"ECHO", "a">>, GetAck >>, null |-> FALSE],
   [queries |-> << <<"ECHO", "REPLCONF", "ACK">> >>, null |-> FALSE],
   [queries |-> << <<"INCR", "k">>, <<"ECHO", "REPLCONF", "ACK">>, GetAck >>,
    null |-> FALSE],
   [queries |-> << <<"ECHO", "ACK">>, <<"PING">> >>, null |-> TRUE],
   [queries |-> << <<"XADD", "s", "1-0", "f", "a">>, GetAck >>, null |-> FALSE]}

\* a replica in replication-stream mode whose master also sends ECHO
NextReplEcho ==
  \/ StrmTick
  \/ \E rd \in EchoReads : MasterSend(rd)
  \/ StrmRead
  \/ StrmEof
  \/ StrmParse

SpecReplEcho == InitReplStream /\ [][NextReplEcho]_vars

\* ------------------------------------------------------------------------
\* replication.py on a replica: connect_to_master and the handshake
\* ------------------------------------------------------------------------

\* the port the replica listens on
ReplicaPort == "1"

\* the request of each step of the handshake: _perform_handshake sends the
\* first three, _initialize_sync the fourth
HandshakeRequest(step) ==
  CASE step = 1 -> encode_array(<<encode_simple_string("PING")>>)
    [] step = 2 -> EncodeQuery(<<"REPLCONF", "listening-port", ReplicaPort>>)
    [] step = 3 -> EncodeQuery(<<"REPLCONF", "capa", "psync2">>)
    [] step = 4 -> EncodeQuery(<<"PSYNC", "?", "-1">>)

\* the str _read_for is called with at each step
ExpectedCommand(step) == IF step = 1 THEN "PONG" ELSE "OK"

\* the line a master answers each step with
ExpectedLine(step) ==
  IF step = 4 THEN Encode(FullResync(0))[1]
  ELSE Encode(encode_simple_string(ExpectedCommand(step)))[1]

\* the lines the master may answer with
MasterLines ==
  {ExpectedLine(1), ExpectedLine(2), ExpectedLine(4),
   Encode(encode_error("EXEC without MULTI"))[1]}

\* connect_to_master after open_connection
InitHandshake ==
  /\ hs = [pc |-> "send", step |-> 1, got |-> << >>]
  /\ master_out = << >>
  /\ strm = NoStream
  /\ inbox = << >>
  /\ sent = << >>
  /\ processed = << >>

\* writer.write(request.encode()); await writer.drain()
HsSend ==
  /\ hs.pc = "send"
  /\ running = NoTask
  /\ master_out' = Append(master_out,
       [idx |-> hs.step, reply |-> HandshakeRequest(hs.step)])
  /\ hs' = [hs EXCEPT !.pc = "wait"]
  /\ UNCHANGED <<evalVars, serverVars, strm, inbox, sent, processed>>

\* "FULLRESYNC" not in query, for a str and for a list; for None the test
\* raises
HasFullResync(value) ==
  \/ value.t = "str"
       /\ Contains(<<Chars(value.s)>>,
                   <<"F", "U", "L", "L", "R", "E", "S", "Y", "N", "C">>)
  \/ value.t = "list"
       /\ \E i \in 1..Len(value.a) : value.a[i] = PStr("FULLRESYNC")

\* the reply read at a step is accepted: _read_for for the first three
\* steps, the test of _initialize_sync for the fourth
ReplyAccepted(step, pr) ==
  /\ ~pr.raised
  /\ IF step = 4 THEN HasFullResync(pr.value)
     ELSE pr.value = PStr(ExpectedCommand(step))

\* response = await reader.readline() and parse(): the reply is accepted
\* and the next step follows (after the fourth, the RDB file is read and the
\* stream starts), or an exception ends connect_to_master
HsRead(line) ==
  /\ hs.pc = "wait"
  /\ running = NoTask
  /\ IF ReplyAccepted(hs.step, parse(<<line, << >> >>))
       THEN IF hs.step = 4
              THEN /\ hs' = [pc |-> "done", step |-> 5, got |-> line]
                   /\ strm' = StreamStarted
              ELSE /\ hs' = [pc |-> "send", step |-> hs.step + 1, got |-> line]
                   /\ UNCHANGED strm
       ELSE /\ hs' = [hs EXCEPT !.pc = "aborted", !.got = line]
            /\ UNCHANGED strm
  /\ UNCHANGED <<evalVars, serverVars, master_out, inbox, sent, processed>>

\* the reads of a client of the replica
LocalReads == {rd \in ClientReads : rd.queries[1][1] # "WAIT"}

\* the server of the replica accepts connections before connect_to_master
\* is called: a client is served whenever the handshake awaits a reply
NextHandshake ==
  \/ HsSend
  \/ \E line \in MasterLines : HsRead(line)
  \/ \E rd \in LocalReads : hs.pc = "wait" /\ SrvRead("c1", rd)
  \/ hs.pc = "wait" /\ SrvEof("c1")
  \/ hs.pc = "wait" /\ SrvParse("c1")
  \/ hs.pc = "wait" /\ SrvAfterReply("c1")

\* a replica that has just connected to its master
InitReplica == InitEvaluator /\ InitServer /\ InitHandshake

SpecHandshake == InitReplica /\ [][NextHandshake]_vars

\* ------------------------------------------------------------------------
\* Properties of the string store (SpecKV)
\* ------------------------------------------------------------------------

NilReply == encode_bulk_string(None)

\* the latest step is a GET that was answered with a bulk string or nil
GetAnswered == last.did = "get"

\* C1: GET k replies with the bulk string of the value of the most recent
\* SET k v, and with the nil bulk string if k was never set.
C1_GetRepliesLastSet ==
  GetAnswered =>
    LET w == lastWrite[last.query[2]]
    IN  /\ w.kind = "set" => last.reply = encode_bulk_string(PyStr(w.value))
        /\ w.kind = "none" => last.reply = NilReply

\* C1 on the values that are not the empty string: there GET replies the
\* value of the most recent SET
C1_HoldsForNonEmptyValues ==
  GetAnswered =>
    LET w == lastWrite[last.query[2]]
    IN  /\ (w.kind = "set" /\ w.value # "")
           => last.reply = encode_bulk_string(PyStr(w.value))
        /\ w.kind = "none" => last.reply = NilReply

\* C2: after SET k v px ms, a GET k later than set_time + ms replies nil and
\* leaves no entry for k in the string store, and a GET k before that
\* deadline replies v.
C2_GetRespectsPx ==
  GetAnswered =>
    LET key == last.query[2]
        w   == lastWrite[key]
    IN  w.kind = "setpx" =>
          /\ last.at > w.at + w.ms
             => last.reply = NilReply /\ key \notin DOMAIN kv
          /\ last.at < w.at + w.ms
             => last.reply = encode_bulk_string(PyStr(w.value))

\* the part of C2 after the deadline
C2_NilAfterDeadline ==
  GetAnswered =>
    LET key == last.query[2]
        w   == lastWrite[key]
    IN  (w.kind = "setpx" /\ last.at > w.at + w.ms)
          => last.reply = NilReply /\ key \notin DOMAIN kv

\* ------------------------------------------------------------------------
\* Properties of the streams (SpecStream)
\* ------------------------------------------------------------------------

\* (ms, seq) of an entry id, and the lexicographic order on them
IdPair(entry_id) ==
  <<ParseEntryId(entry_id).time, ParseEntryId(entry_id).sequence>>

PairLess(a, b) == a[1] < b[1] \/ (a[1] = b[1] /\ a[2] < b[2])

\* C3: in every stream the ids of the stored entries are strictly increasing
\* in insertion order, compared as (ms, seq).
C3_StreamIdsIncreasing ==
  \A key \in Keys :
    \A i, j \in 1..Len(streams[key]) :
      i < j => PairLess(IdPair(streams[key][i].id), IdPair(streams[key][j].id))

\* a stream holds three entries and the latest XADD was turned down
C3_Witness ==
  /\ Len(streams["s"]) = 3
  /\ last.did = "xadd_error"

\* the step is the return of a call that ran the named command (it was not
\* queued)
Ran(name) ==
  /\ last'.seq # last.seq
  /\ last'.query # << >>
  /\ last'.query[1] = name
  /\ last'.did \notin {"queued", "exec_begin", "exec_skip"}

\* C4: XADD with id 0-0 is rejected with the "greater than 0-0" error, XADD
\* with an id not above the top entry of the stream is rejected with the
\* "equal or smaller" error, and both leave every stream as it was.
C4_XaddRejectsSmallIds ==
  [][Ran("XADD") =>
       LET key == last'.query[2]
           id  == IdPair(last'.query[3])
           n   == Len(streams[key])
       IN  /\ id = <<0, 0>>
              => last'.reply = encode_error(MsgZeroId) /\ streams' = streams
           /\ (id # <<0, 0>> /\ n > 0
               /\ ~PairLess(IdPair(streams[key][n].id), id))
              => last'.reply = encode_error(MsgTopItem) /\ streams' = streams
    ]_vars

\* an XADD whose id equals the top entry's, written differently, has been
\* turned down
C4_Witness ==
  /\ last.did = "xadd_error"
  /\ last.reply = encode_error(MsgTopItem)
  /\ IdPair(last.query[3]) = IdPair(streams["s"][Len(streams["s"])].id)
  /\ last.query[3] # streams["s"][Len(streams["s"])].id

\* an XADD of 0-0 has been turned down by an EXEC
C4_WitnessZero ==
  /\ last.did = "xadd_error"
  /\ last.via = "exec"
  /\ last.reply = encode_error(MsgZeroId)

\* ------------------------------------------------------------------------
\* Properties of the transactions (SpecTx)
\* ------------------------------------------------------------------------

Queued_ == encode_simple_string("QUEUED")
Ok == encode_simple_string("OK")

\* the step is the handling of a command as it is received from a client
Received == last'.seq # last.seq /\ last'.via = "client"

\* a query that matches a case of handle_command with arguments that parse
WellFormed(query) ==
  \/ query[1] = "SET" /\ Len(query) = 3
  \/ query[1] = "SET" /\ Len(query) = 5 /\ query[4] = "px" /\ ParseInt(query[5]).ok
  \/ query[1] \in {"INCR", "GET"} /\ Len(query) = 2
  \/ /\ query[1] = "XADD" /\ Len(query) >= 3 /\ (Len(query) - 3) % 2 = 0
     /\ ParseEntryId(query[3]).ok

\* C5: while a connection has an open transaction, a SET, INCR or XADD it
\* sends is answered +QUEUED, is appended to that connection's queue, and
\* changes neither the string store nor any stream.
C5_WritesAreQueuedInTx ==
  [][(/\ Received
      /\ last'.query[1] \in {"SET", "INCR", "XADD"}
      /\ inTx[last'.conn])
       => /\ last'.reply = Queued_
          /\ command_queues'[last'.conn] =
               Append(command_queues[last'.conn], Queued(last'.query))
          /\ kv' = kv
          /\ streams' = streams
    ]_vars

\* an INCR and an XADD wait in the queue of an open transaction, and nothing
\* has been written
C5_Witness ==
  /\ inTx["c1"]
  /\ last.reply = Queued_
  /\ last.query[1] = "XADD"
  /\ \E i \in 1..Len(command_queues["c1"]) :
       command_queues["c1"][i].query = <<"INCR", "k">>
  /\ kv = << >>
  /\ streams["s"] = << >>

\* the queries of a queue, without the MULTI markers
QueriesOf(command_queue) ==
  LET items == SelectSeq(command_queue, LAMBDA item : ~item.marker)
  IN  [i \in 1..Len(items) |-> items[i].query]

Markers(command_queue) ==
  Cardinality({i \in 1..Len(command_queue) : command_queue[i].marker})

\* EXEC has returned on connection c: every query of cmds was executed once,
\* in order, and the reply is the array of their replies
ExecRanAll(c, cmds) ==
  /\ last.did = "exec"
  /\ Len(execRan[c]) = Len(cmds)
  /\ \A i \in 1..Len(cmds) :
       /\ execRan[c][i].query = cmds[i]
       /\ execRan[c][i].did # "queued"
  /\ last.reply = encode_array([i \in 1..Len(execRan[c]) |-> execRan[c][i].reply])
  /\ cmds = <<<<"SET", "k", "1">>, <<"INCR", "k">>>>
       => last.reply = encode_array(<<Ok, encode_integer(2)>>)

\* the end of an EXEC whose queue held well-formed commands only
ExecReturned ==
  /\ last.via = "return"
  /\ \A i \in 1..Len(execSnap[last.conn]) :
       execSnap[last.conn][i].marker \/ WellFormed(execSnap[last.conn][i].query)

C7_DiscardDropsQueue ==
  /\ [][(Received /\ last'.query = <<"DISCARD">> /\ inTx[last'.conn])
          => /\ last'.reply = Ok
             /\ command_queues'[last'.conn] = << >>
             /\ ~is_transaction_open(command_queues', last'.conn)
             /\ kv' = kv
             /\ streams' = streams
       ]_vars
  /\ [](\A c \in Conns :
          /\ \A i \in 1..Len(execRan[c]) : ~execRan[c][i].stale
          /\ \A i \in 1..Len(command_queues[c]) : ~command_queues[c][i].stale)
  /\ []((last.query = <<"EXEC">> /\ last.via = "client" /\ last.prev = "discard")
          => last.reply = encode_error("EXEC without MULTI"))

\* a DISCARD has dropped MULTI and two queued commands, none of which was
\* executed
C7_Witness ==
  /\ last.query = <<"DISCARD">>
  /\ last.reply = Ok
  /\ last.dropped = 3
  /\ command_queues[last.conn] = << >>
  /\ kv = << >>
  /\ streams["s"] = << >>

\* the EXEC that followed a DISCARD was refused
C7_WitnessExec ==
  /\ last.query = <<"EXEC">>
  /\ last.prev = "discard"
  /\ last.reply = encode_error("EXEC without MULTI")

\* C8: EXEC and DISCARD on a connection without an open transaction reply
\* "EXEC without MULTI" and "DISCARD without MULTI", execute nothing and
\* leave the datastore and the queues as they were; so does a second EXEC
\* right after an EXEC that succeeded.
C8_ExecDiscardNeedMulti ==
  /\ [][(/\ Received
         /\ last'.query \in {<<"EXEC">>, <<"DISCARD">>}
         /\ ~inTx[last'.conn])
          => /\ last'.reply =
                  IF last'.query = <<"EXEC">>
                    THEN encode_error("EXEC without MULTI")
                    ELSE encode_error("DISCARD without MULTI")
             /\ kv' = kv
             /\ streams' = streams
             /\ command_queues' = command_queues
             /\ pc' = pc
             /\ execRan'[last'.conn] = << >>
       ]_vars
  /\ []((last.query = <<"EXEC">> /\ last.via = "client" /\ last.prev = "exec")
          => last.reply = encode_error("EXEC without MULTI"))

\* an EXEC that executed a command is followed by an EXEC that is refused
C8_Witness ==
  /\ last.query = <<"EXEC">>
  /\ last.prev = "exec"
  /\ last.reply = encode_error("EXEC without MULTI")
  /\ kv # << >>

\* C9: from the moment an EXEC starts to drain its queue until it returns
\* (hence between its first and its last queued command), every command
\* that is evaluated is evaluated on the connection of that EXEC.
C9_ExecIsNotInterleaved ==
  [][\A c \in Conns :
       (pc[c] = "exec" /\ last'.seq # last.seq) => last'.conn = c
    ]_vars

\* an EXEC has executed one command and has another to go, while the other
\* connection is a client that has sent commands
C9_Witness ==
  /\ pc["c1"] = "exec"
  /\ Len(execRan["c1"]) = 1
  /\ Len(command_queues["c1"]) = 1
  /\ lastDid["c2"] = "set"
  /\ pc["c2"] = "idle"

\* C10: a command of one connection changes neither the queue nor the
\* open/closed state of another, and a write received on a connection that
\* has no open transaction is executed at once and not queued, also while
\* another connection has one.
C10_TransactionsArePerConnection ==
  [][(last'.seq # last.seq) =>
       /\ \A b \in Conns \ {last'.conn} :
            /\ command_queues'[b] = command_queues[b]
            /\ inTx'[b] = inTx[b]
            /\ is_transaction_open(command_queues', b)
                 = is_transaction_open(command_queues, b)
       /\ (/\ last'.via = "client"
           /\ last'.query[1] \in {"SET", "INCR", "XADD"}
           /\ WellFormed(last'.query)
           /\ ~inTx[last'.conn])
            => /\ last'.reply # Queued_
               /\ last'.did \in {"set", "setpx", "incr", "incr_error", "xadd",
                                 "xadd_error"}
               /\ command_queues'[last'.conn] = command_queues[last'.conn]
               /\ last'.query[1] = "SET"
                    => last'.query[2] \in DOMAIN kv'
                       /\ kv'[last'.query[2]].value = PyStr(last'.query[3])
    ]_vars

\* c2 has written k at once while c1 holds an open transaction with a
\* queued command
C10_Witness ==
  /\ inTx["c1"]
  /\ ~inTx["c2"]
  /\ Len(command_queues["c1"]) = 2
  /\ command_queues["c2"] = << >>
  /\ last.conn = "c2"
  /\ last.did = "set"
  /\ "k" \in DOMAIN kv

\* the history inTx agrees with the test the code makes
InTxMatchesQueue ==
  \A c \in Conns : pc[c] = "idle" => (inTx[c] <=> is_transaction_open(command_queues, c))

\* ------------------------------------------------------------------------
\* Properties of single commands (SpecKV, SpecStream, SpecTx)
\* ------------------------------------------------------------------------

\* the value GET would find under the key before the step
LiveValue(key) == GetItem(kv, key, now).value

\* what the claim says of an INCR of a key that holds the value v
IncrAsClaimed(key, v) ==
  /\ v = None =>
        /\ last'.reply = encode_integer(1)
        /\ ToInt(kv'[key].value).n = 1
  /\ (v # None /\ ToInt(v).ok) =>
        /\ last'.reply = encode_integer(ToInt(v).n + 1)
        /\ ToInt(kv'[key].value).n = ToInt(v).n + 1
  /\ (v # None /\ ~ToInt(v).ok) =>
        /\ last'.reply = encode_error("value is not an integer or out of range")
        /\ kv' = kv

\* C24: INCR k on an absent key stores 1 and replies :1; on a value that
\* parses as the integer n it stores n+1 and replies :n+1; on a value that
\* does not parse as an integer it replies the error and leaves the stored
\* value unchanged.
C24_IncrCountsOrRejects ==
  [][Ran("INCR") => IncrAsClaimed(last'.query[2], LiveValue(last'.query[2]))]_vars

\* C24 on the keys that do not hold the empty string
C24_HoldsForNonEmptyValues ==
  [][(Ran("INCR") /\ LiveValue(last'.query[2]) # PyStr(""))
       => IncrAsClaimed(last'.query[2], LiveValue(last'.query[2]))]_vars

\* the step is the return of an XADD that added its entry to the stream
XaddAdded ==
  /\ Ran("XADD")
  /\ last'.did = "xadd"
  /\ streams' # streams

\* C25: a successful XADD k id field value replies with the bulk string of
\* the id of the entry that was added, never with the nil bulk string
C25_XaddRepliesId ==
  [][XaddAdded => last'.reply = encode_bulk_string(PyStr(last'.query[3]))]_vars

\* the step is the return of an XREAD without block
XreadAnswered ==
  /\ last'.seq # last.seq
  /\ last'.did = "xread"
  /\ last'.query[2] = "streams"

\* the entries of the i-th requested stream with an id greater than the
\* i-th given id
NewerEntries(rest, i) ==
  query_from_stream(streams, StreamKeysOf(rest)[i], EntryIdsOf(rest)[i], FALSE)

\* what the claim says of the reply to XREAD streams rest
XreadAsClaimed(rest, reply) ==
  /\ reply = NilReply
       => \A i \in 1..Len(StreamKeysOf(rest)) : NewerEntries(rest, i) = << >>
  /\ \A i \in 1..Len(StreamKeysOf(rest)) :
       NewerEntries(rest, i) # << >>
         => /\ reply.t = "array"
            /\ \E j \in 1..Len(reply.a) :
                 reply.a[j] = XreadItem(StreamKeysOf(rest)[i], NewerEntries(rest, i))

\* C26: XREAD streams k1..kN id1..idN without block replies nil only when
\* every requested stream has no entry with an id greater than its given
\* id; when a requested stream has such entries, the reply is an array that
\* contains them
C26_XreadNilOnlyWhenAllEmpty ==
  [][XreadAnswered
       => XreadAsClaimed(SubSeq(last'.query, 3, Len(last'.query)), last'.reply)]_vars

\* C26 for the XREAD of one stream
C26_HoldsForOneStream ==
  [][(XreadAnswered /\ Len(last'.query) = 4)
       => XreadAsClaimed(SubSeq(last'.query, 3, Len(last'.query)), last'.reply)]_vars

\* the XREAD of c sleeps inside _wait_for_stream with a positive timeout
BlockedWithTimeout(c) ==
  /\ pc[c] = "xread"
  /\ BlockingTime(task[c].query).n > 0

\* C27: XREAD block ms with ms > 0 returns as soon as a poll finds an entry
\* with an id greater than the given id, without waiting for the rest of
\* the timeout: it never sleeps again once its query has found entries
C27_BlockedXreadReturnsOnEntry ==
  \A c \in Conns : BlockedWithTimeout(c) => task[c].stream = << >>

\* the XREAD block of c returns nil only when its timeout has run out
C27_NilOnlyAfterDeadline ==
  [][\A c \in Conns :
       (BlockedWithTimeout(c) /\ pc'[c] = "idle" /\ last'.reply = NilReply)
         => now - task[c].started >= BlockingTime(task[c].query).n]_vars

\* the XREAD block 0 of c sleeps inside _wait_for_stream
BlockedForever(c) ==
  /\ pc[c] = "xread"
  /\ BlockingTime(task[c].query).n = 0

\* the entries of the i-th stream the sleeping XREAD of c asks for that
\* have an id greater than the i-th id it gave
NewerFor(c, i) == NewerEntries(BlockArguments(task[c].query), i)

\* one of the streams the sleeping XREAD of c asks for holds such an entry
SomeStreamHasNewer(c) ==
  \E i \in 1..Len(StreamKeysOf(BlockArguments(task[c].query))) :
    NewerFor(c, i) # << >>

\* the stream the XREAD block 0 of c waits for holds such an entry
AwaitedHasNewer(c) == BlockedForever(c) /\ NewerFor(c, task[c].i) # << >>

\* an XREAD block 0 is answered, and not with the nil bulk string
BlockForeverNeverNil ==
  (/\ last'.seq # last.seq
   /\ Len(last'.query) >= 3
   /\ last'.query[2] = "block"
   /\ last'.query[3] = "0")
    => last'.reply # NilReply

\* C32: XREAD block 0 over several streams never replies nil, and once one
\* of the requested streams holds an entry with an id greater than the
\* given one the call returns in the end, whatever the other streams hold
C32_BlockForeverReturnsOnAnyEntry ==
  /\ [][BlockForeverNeverNil]_vars
  /\ \A c \in Conns :
        (BlockedForever(c) /\ SomeStreamHasNewer(c)) ~> pc[c] # "xread"

\* the wake-up of c while the stream it waits for holds such an entry ends
\* the wait for that stream
PollLeavesAwaited(c) ==
  (AwaitedHasNewer(c) /\ XreadPoll(c)) => ~AwaitedHasNewer(c)'

\* what does hold: it never replies nil, and its next wake-up leaves the
\* stream it waits for once that stream holds such an entry
C32_HoldsForTheAwaitedStream ==
  /\ [][BlockForeverNeverNil]_vars
  /\ [][PollLeavesAwaited("c1")]_vars

\* the key was loaded from the file with an expiry
LoadedWithExpiry(key) == lastWrite[key].kind \in {"rdb_s", "rdb_ms"}

\* two entries of the file whose expiries are the same time are stored
\* with the same deadline
SameDeadlineStored ==
  \A k1, k2 \in DOMAIN kv :
    (LoadedWithExpiry(k1) /\ LoadedWithExpiry(k2)
       /\ lastWrite[k1].at = lastWrite[k2].at)
      => kv[k1].expiry = kv[k2].expiry

\* GET of a key of the file replies its value before the deadline w.at of
\* the file and nil after it
GetKeepsDeadline(w) ==
  /\ last.at < w.at => last.reply = encode_bulk_string(PyStr(w.value))
  /\ last.at > w.at => last.reply = NilReply

\* C28: a key loaded from an RDB snapshot keeps its absolute expiry
\* whichever marker encodes it: 0xFD with T seconds and 0xFC with 1000*T
\* milliseconds are stored with the same deadline, GET returns the value
\* before that deadline and nil after it, and an entry without a marker
\* never expires
C28_RdbKeepsExpiry ==
  /\ SameDeadlineStored
  /\ GetAnswered =>
       /\ LoadedWithExpiry(last.query[2])
            => GetKeepsDeadline(lastWrite[last.query[2]])
       /\ lastWrite[last.query[2]].kind = "rdb_none"
            => last.reply = encode_bulk_string(PyStr(lastWrite[last.query[2]].value))

\* C28 for the entries with the milliseconds marker and without a marker
C28_HoldsForMilliseconds ==
  GetAnswered =>
    /\ lastWrite[last.query[2]].kind = "rdb_ms"
         => GetKeepsDeadline(lastWrite[last.query[2]])
    /\ lastWrite[last.query[2]].kind = "rdb_none"
         => last.reply = encode_bulk_string(PyStr(lastWrite[last.query[2]].value))

\* the step is a GET that c1 sends while its transaction is open
GetInTx ==
  /\ last'.seq # last.seq
  /\ last'.via = "client"
  /\ last'.query # << >>
  /\ last'.query[1] = "GET"
  /\ is_transaction_open(command_queues, "c1")

\* the step is a GET that EXEC takes from the queue
GetAtExec ==
  /\ last'.seq # last.seq
  /\ last'.via = "exec"
  /\ last'.query[1] = "GET"

\* the bulk string of the live value of the key, nil when there is none
BulkOfLive(key) ==
  IF LiveValue(key) = None THEN NilReply
  ELSE encode_bulk_string(PyStr(ToStr(LiveValue(key))))

\* the GET is answered +QUEUED and appended to the queue of c1
GetIsQueued ==
  /\ last'.reply = encode_simple_string("QUEUED")
  /\ command_queues'["c1"] = Append(command_queues["c1"], Queued(last'.query))

\* the GET is answered with the live value and the queues stay as they are
GetIsRepliedAtOnce ==
  /\ last'.reply = BulkOfLive(last'.query[2])
  /\ command_queues' = command_queues

\* what the claim says of a step
GetAsClaimed ==
  /\ (GetInTx /\ LiveValue(last'.query[2]) # None) => GetIsRepliedAtOnce
  /\ (GetInTx /\ LiveValue(last'.query[2]) = None) => GetIsQueued
  /\ GetAtExec => last'.reply = BulkOfLive(last'.query[2])

\* C29: during an open transaction GET k on a key that holds a live value
\* replies at once with that value and is not queued; GET k on an absent
\* or expired key replies +QUEUED, is appended to the queue and is run at
\* EXEC, where its reply is the value the writes queued before it have left
C29_GetInTransaction ==
  [][GetAsClaimed]_vars

\* the part of C29 about the absent and the expired keys
C29_AbsentKeyIsQueued ==
  [][(GetInTx /\ LiveValue(last'.query[2]) = None) => GetIsQueued]_vars

\* the part of C29 about the live values other than the empty string
C29_NonEmptyValueIsReplied ==
  [][(GetInTx /\ Truthy(LiveValue(last'.query[2]))) => GetIsRepliedAtOnce]_vars

\* the step is the return of KEYS
KeysAnswered ==
  /\ last'.seq # last.seq
  /\ last'.did = "keys"

\* the keys of the string store whose TTL has not elapsed
LiveKeys == {key \in DOMAIN kv : ~Expired(kv[key], now)}

\* the keys in the reply of KEYS
KeysReplied == {last'.reply.a[i].s : i \in 1..Len(last'.reply.a)}

\* C30: KEYS returns exactly the currently-live keys of the string store: a
\* key whose TTL has elapsed is never in the reply, whether or not a GET has
\* touched it since it expired
C30_KeysAreLiveKeys ==
  [][KeysAnswered => KeysReplied = LiveKeys]_vars

\* the reply of KEYS holds every live key and only keys that are stored: an
\* expired key that a GET has touched is not in it
C30_KeysAreStoredKeys ==
  [][KeysAnswered
       => (LiveKeys \subseteq KeysReplied /\ KeysReplied = DOMAIN kv)]_vars

\* the calls the EXEC of c made that failed with an error reply, and those
\* that raised
ErrorReplied(c) ==
  {i \in 1..Len(execRan[c]) : execRan[c][i].reply.t = "error"}
RaisedIn(c) == {i \in 1..Len(execRan[c]) : execRan[c][i].did = "raise"}

\* EXEC has ended on a connection whose transaction was opened by one MULTI
ExecEnded == last.via = "return" /\ Markers(execSnap[last.conn]) = 1

\* the EXEC of c ran every command that was queued, in order, and left the
\* queue empty and no transaction open
RanWholeQueue(c) ==
  /\ [i \in 1..Len(execRan[c]) |-> execRan[c][i].query] = QueriesOf(execSnap[c])
  /\ command_queues[QueueKey(c)] = << >>
  /\ ~is_transaction_open(command_queues, c)

\* C34: when a queued command fails while EXEC runs it, with an error reply
\* (INCR on a non-integer, XADD with an id not above the top) or by raising
\* (a SET of unsupported arity), EXEC still runs every remaining queued
\* command, and afterwards the queue of the connection is empty and no
\* transaction is open
C34_ExecSurvivesFailedCommand ==
  (ExecEnded /\ (ErrorReplied(last.conn) \cup RaisedIn(last.conn)) # {})
    => RanWholeQueue(last.conn)

\* what does hold: the same when the failed commands replied an error and
\* none raised
C34_HoldsForErrorReplies ==
  (ExecEnded /\ ErrorReplied(last.conn) # {} /\ RaisedIn(last.conn) = {})
    => RanWholeQueue(last.conn)

\* an INCR on a non-integer failed inside an EXEC that went on
C34_ErrorReplyReached ==
  /\ ExecEnded
  /\ RaisedIn(last.conn) = {}
  /\ \E i \in ErrorReplied(last.conn) :
        /\ execRan[last.conn][i].query = <<"INCR", "k">>
        /\ i < Len(execRan[last.conn])

\* the command before the step was an INCR that replied an integer, and the
\* step is the next command on its key
FollowsIncr ==
  /\ last.did = "incr"
  /\ last'.seq # last.seq
  /\ Len(last'.query) = 2
  /\ last'.query[2] = last.query[2]

\* what the claim says of the command that follows an INCR that replied n
AfterIncrAsClaimed(n) ==
  /\ Ran("GET") => last'.reply = encode_bulk_string(PyStr(IntToStr(n)))
  /\ Ran("TYPE") => last'.reply = encode_simple_string("string")
  /\ Ran("INCR") => last'.reply = encode_integer(n + 1)

\* C35: after INCR k has replied the integer n, GET k replies the decimal
\* string of n, TYPE k replies string and a further INCR k replies n + 1,
\* for every n, 0 among them
C35_IncrResultIsStored ==
  [][FollowsIncr => AfterIncrAsClaimed(last.reply.n)]_vars

\* what does hold: the same for every n but 0
C35_HoldsForNonZero ==
  [][(FollowsIncr /\ last.reply.n # 0) => AfterIncrAsClaimed(last.reply.n)]_vars

\* what does hold for 0 too: a further INCR k replies n + 1
C35_NextIncrCountsOn ==
  [][(FollowsIncr /\ Ran("INCR")) => last'.reply = encode_integer(last.reply.n + 1)]_vars

\* ------------------------------------------------------------------------
\* Properties of the master's connection server (SpecServer)
\* ------------------------------------------------------------------------

\* the connection that made the write at place i of committed has gone
\* through the propagation test for the call that made it
Handled(i) ==
  LET c == committed[i].conn
  IN  task[c].m # committed[i].m
        \/ task[c].pc \in {"parse", "read", "closed", "wait"}

\* the data of the read that made write i has been written to replica s
WrittenTo(s, i) ==
  \E j \in 1..Len(wire[s]) :
    wire[s][j].kind = "data" /\ wire[s][j].m = committed[i].m

C11_HoldsForSet ==
  \A i \in 1..Len(committed) :
    (committed[i].via = "client" /\ Handled(i)
       /\ committed[i].query[1] = "SET")
      => \A s \in committed[i].sinks : IsClosed(s) \/ WrittenTo(s, i)

C12_QueuedSetsReachSinks ==
  \A i \in 1..Len(committed) :
    (committed[i].via = "exec" /\ committed[i].query[1] = "SET" /\ Handled(i))
      => \A s \in committed[i].sinks : IsClosed(s) \/ WrittenTo(s, i)

C14_ResyncIsContiguous ==
  \A s \in Peers : \A j \in 1..Len(wire[s]) :
    /\ (wire[s][j].kind = "rdblen")
         => j > 1 /\ wire[s][j - 1].kind = "reply"
                  /\ IsFullResync(wire[s][j - 1].reply)
    /\ (wire[s][j].kind = "rdb") => j > 1 /\ wire[s][j - 1].kind = "rdblen"

\* the canonical RESP length of a command: the bytes of its frame
CommandLen(query) == EncodedByteLen(Frame(query))

ConnectedReplicas == {s \in Peers : HasReplica(replicas, s) /\ ~IsClosed(s)}

\* the step writes the reply to a WAIT on connection p
WaitReplied(p) ==
  /\ Len(wire'[p]) = Len(wire[p]) + 1
  /\ wire'[p][Len(wire'[p])].kind = "reply"
  /\ wire'[p][Len(wire'[p])].query[1] = "WAIT"

RepliesOfRead(p) ==
  SelectSeq(SubSeq(wire[p], task[p].w0 + 1, Len(wire[p])),
            LAMBDA w : w.kind = "reply")

\* the commands of the latest read of p have been evaluated and answered,
\* all of them and in their order
AllAnswered(p) ==
  /\ Len(RepliesOfRead(p)) = Len(task[p].frames)
  /\ \A i \in 1..Len(task[p].frames) :
        RepliesOfRead(p)[i].query = [task[p].frames[i] EXCEPT ![1] = Upper(@)]

\* the loop over the frames of the latest read of p has ended
ReadIsOver(p) == task[p].pc \in {"read", "closed"}

C20_WellFormedFramesAllAnswered ==
  \A p \in Conns :
    (ReadIsOver(p) /\ \A i \in 1..Len(task[p].frames) : task[p].frames[i] # BadQuery)
      => AllAnswered(p)

\* the latest read of p has returned the first bytes of a frame only
ReadCutFrame(p) == task[p].part

\* history: nothing has been written to p since its latest read
NothingWritten(p) == Len(wire[p]) = task[p].w0

\* C21: a command frame that is split across two reads is not evaluated
\* before its last byte has arrived, and its first bytes are retained for
\* the next read: the read that returned them writes no reply and leaves
\* the connection open
C21_SplitFrameIsRetained ==
  \A p \in Peers : ReadCutFrame(p) => (~IsClosed(p) /\ NothingWritten(p))

\* the part of C21 about the evaluation alone: the frame is not answered
\* before its last byte has arrived
C21_SplitFrameNotEvaluatedEarly ==
  \A p \in Peers : ReadCutFrame(p) => NothingWritten(p)

\* the latest read of p held complete frames of supported commands and
\* nothing else, and every one of them has been evaluated and answered:
\* the parser is left with the empty chunk after the last CRLF
CleanReadProcessed(p) ==
  /\ task[p].pc = "parse"
  /\ ~ReadCutFrame(p)
  /\ task[p].data = ReadOf(task[p].frames, FALSE)
  /\ \A i \in 1..Len(task[p].frames) : task[p].frames[i] # BadQuery
  /\ task[p].deque = << << >> >>
  /\ AllAnswered(p)

NextIsUnsupported(p) ==
  /\ task[p].pc = "parse"
  /\ running = p
  /\ ~parse(task[p].deque).raised
  /\ IsQuery(parse(task[p].deque).value)
  /\ QueryOf(parse(task[p].deque).value) = BadQuery

\* the latest write to p is an error reply
ErrorWritten(p) ==
  /\ Len(wire'[p]) = Len(wire[p]) + 1
  /\ wire'[p][Len(wire'[p])].kind = "reply"
  /\ wire'[p][Len(wire'[p])].reply.t = "error"

C23_UnsupportedChangesNothing ==
  [][\A p \in Peers :
       NextIsUnsupported(p) =>
         UNCHANGED <<kv, streams, command_queues, replicas>>]_vars

\* the commands a replica parses out of the bytes of one write
RECURSIVE QueriesIn(_)
QueriesIn(data) ==
  IF parse(data).raised \/ ~ParsedTruthy(parse(data).value)
       \/ ~IsQuery(parse(data).value)
    THEN << >>
    ELSE << QueryOf(parse(data).value) >> \o QueriesIn(parse(data).data)

\* the commands in the bytes passed on to a connection, in order
RECURSIVE CommandsOn(_)
CommandsOn(w) ==
  IF w = << >> THEN << >>
  ELSE (IF Head(w).kind = "data" THEN QueriesIn(Head(w).data) ELSE << >>)
         \o CommandsOn(Tail(w))

\* how many times query is in the sequence
Count(query, queries) ==
  Cardinality({i \in 1..Len(queries) : queries[i] = query})

\* the writes the master has run
CommittedQueries == [i \in 1..Len(committed) |-> committed[i].query]

C33_HoldsForOneSetPerRead ==
  \A s \in Peers : \A j \in 1..Len(wire[s]) :
    (/\ wire[s][j].kind = "data"
     /\ Len(QueriesIn(wire[s][j].data)) = 1
     /\ QueriesIn(wire[s][j].data)[1][1] = "SET")
      => /\ wire[s][j].m \in 1..Len(committed)
         /\ committed[wire[s][j].m].query = QueriesIn(wire[s][j].data)[1]
         /\ \A h \in 1..Len(wire[s]) :
               (wire[s][h].kind = "data" /\ wire[s][h].m = wire[s][j].m) => h = j

\* ------------------------------------------------------------------------
\* Properties of the replication stream of a replica (SpecReplStream)
\* ------------------------------------------------------------------------

\* the bytes of the frames of the first n commands the master has sent
RECURSIVE SentBytes(_)
SentBytes(n) == IF n = 0 THEN 0 ELSE SentBytes(n - 1) + CommandLen(sent[n])

\* REPLCONF ACK <offset>
Ack(offset) == EncodeQuery(<<"REPLCONF", "ACK", IntToStr(offset)>>)

\* C17: the reply to a REPLCONF GETACK * is REPLCONF ACK <offset>, offset
\* being the bytes of all the frames the master sent before this GETACK,
\* the earlier GETACKs among them and this one not
C17_AckReportsBytesBefore ==
  \A j \in 1..Len(master_out) :
    master_out[j].reply = Ack(SentBytes(master_out[j].idx - 1))

\* every character of the commands sent before place n is in ASCII
AsciiBefore(n) ==
  \A i \in 1..(n - 1) : \A h \in 1..Len(sent[i]) :
    ByteLen(Chars(sent[i][h])) = Len(Chars(sent[i][h]))

\* what does hold: the same while the frames before are in ASCII
C17_HoldsForAscii ==
  \A j \in 1..Len(master_out) :
    AsciiBefore(master_out[j].idx)
      => master_out[j].reply = Ack(SentBytes(master_out[j].idx - 1))

\* the stream has nothing left to do: it waits for data and none is there,
\* or it has ended
StreamAtRest ==
  (strm.pc = "read" /\ inbox = << >>) \/ strm.pc = "closed"

\* the stream has handled the command the master sent at place i
Applied(i) == \E j \in 1..Len(processed) : processed[j].idx = i

\* the places of the SET k v commands the master has sent
SentSets == {i \in 1..Len(sent) : Len(sent[i]) = 3 /\ sent[i][1] = "SET"}

\* the reply a client of the replica gets to GET key
LocalGet(key) ==
  handle_command(kv, streams, command_queues, "c1", <<"GET", key>>, now).reply

\* C18: every SET k v the master sends on the stream, in the first read or
\* in a later one, is applied once the stream is at rest: the offset has
\* grown by the bytes of its frame, and GET k on the replica returns the v
\* of the latest of them
C18_SentSetsAreApplied ==
  StreamAtRest =>
    \A i \in SentSets :
      /\ \E j \in 1..Len(processed) :
            /\ processed[j].idx = i
            /\ processed[j].after - processed[j].before = CommandLen(sent[i])
      /\ (\A h \in SentSets : h <= i)
           => LocalGet(sent[i][2]) = encode_bulk_string(PyStr(sent[i][3]))

\* the same without the offset, for the SETs of the later reads alone
C18_LaterReadsAreApplied ==
  StreamAtRest => \A i \in SentSets : Applied(i)

\* the frames the stream has handled that are REPLCONF GETACK *
GetAcksProcessed == {j \in 1..Len(processed) : processed[j].query = GetAck}

\* the reply written for the frame at place idx answers a GETACK
AnswersGetAck(idx) ==
  \E j \in GetAcksProcessed : processed[j].idx = idx

\* C31: in replication-stream mode the replica writes to the master only the
\* REPLCONF ACK that answers a REPLCONF GETACK *: every reply written is
\* for a GETACK frame, and there are as many replies written as GETACK
\* frames handled
C31_OnlyAcksAreWritten ==
  /\ \A j \in 1..Len(master_out) : AnswersGetAck(master_out[j].idx)
  /\ Len(master_out) = Cardinality(GetAcksProcessed)

\* what does hold: every GETACK handled is answered, and a frame that is
\* neither a GETACK nor an ECHO is not
C31_HoldsForGetAckAndWrites ==
  /\ \A j \in GetAcksProcessed :
        \E h \in 1..Len(master_out) : master_out[h].idx = processed[j].idx
  /\ \A h \in 1..Len(master_out) :
        \E j \in 1..Len(processed) :
          /\ processed[j].idx = master_out[h].idx
          /\ processed[j].query[1] \in {"REPLCONF", "ECHO"}

\* ------------------------------------------------------------------------
\* Properties of the handshake of a replica (SpecHandshake)
\* ------------------------------------------------------------------------

\* C19: against a master that answers each step as expected the handshake
\* goes on: it is aborted only at a step whose reply is not the expected one
C19_ExpectedReplyAdvances ==
  hs.pc = "aborted" => hs.got # ExpectedLine(hs.step)

\* what does hold: the requests are sent in the order of the steps, none
\* before the step is reached and none after the handshake is aborted
C19_HoldsRequestsInOrder ==
  /\ \A j \in 1..Len(master_out) :
        /\ master_out[j].idx = j
        /\ master_out[j].reply = HandshakeRequest(j)
  /\ Len(master_out) = IF hs.pc = "send" THEN hs.step - 1 ELSE hs.step

====
